---- MODULE Spec2Model ----
(***************************************************************************)
(* Model of the techtree core (packages/core: schema.ts, graph.ts).        *)
(*                                                                         *)
(* A TechTree is a sequence of TechNode records.  computeTechTree is a     *)
(* pure function; it is modelled as an operator that threads the mutable   *)
(* locals of the TypeScript code (the `tiers` memo map, the `visiting`     *)
(* set, the console output) through the recursion exactly in the order     *)
(* the code touches them.                                                  *)
(*                                                                         *)
(* Optional fields (tier, devPoints) are modelled as Undefined = << >> or  *)
(* a one-element tuple <<v>>.  JavaScript Maps are modelled as functions   *)
(* whose DOMAIN is the key set.                                            *)
(***************************************************************************)
EXTENDS Integers, Sequences, FiniteSets, TLC

VARIABLES tree, pc, result, input, parsed, query,
          files, requests, app, fetches

vars == <<tree, pc, result, input, parsed, query,
         files, requests, app, fetches>>

(***************************************************************************)
(* Bounds of the model.                                                    *)
(***************************************************************************)
\* most nodes in a tree
MaxNodes == 3
\* most prerequisite entries in a tree, summed over its nodes
MaxEdges == 2
\* largest explicit tier a node declares
MaxTier == 2
\* most nodes of a tree that declare an explicit tier
MaxExplicit == 1

\* node ids: non-empty strings (schema: id: z.string().min(1))
Names == <<"A", "B", "C", "D", "E">>

(***************************************************************************)
(* Optional values and Maps.                                               *)
(***************************************************************************)
Undefined == << >>

Some(v) == <<v>>

\* a ?? b
Coalesce(a, b) == IF a # Undefined THEN a[1] ELSE b

EmptyMap == << >>

\* Map.prototype.set
MapSet(m, k, v) == [x \in (DOMAIN m) \cup {k} |-> IF x = k THEN v ELSE m[x]]

\* Map.prototype.get: undefined for an absent key
MapGet(m, k) == IF k \in DOMAIN m THEN Some(m[k]) ELSE Undefined

\* Math.max replaced by Math.min
MaxAsMin(a, b) == IF a <= b THEN a ELSE b

\* Math.max dropped: maxPrereqTier = prereqTier
MaxAsLast(a, b) == b

\* Math.max
Max(a, b) == IF a >= b THEN a ELSE b

(***************************************************************************)
(* schema.ts                                                               *)
(***************************************************************************)
NodeStatus == {"completed", "in-progress", "planned", "blocked"}

\* A node as TechNodeSchema yields it; the descriptive fields the core
\* never reads (name, description, repo, tags, ...) are left out.
TechNode(id, tier, status, prerequisites, devPoints) ==
    [id |-> id, tier |-> tier, status |-> status,
     prerequisites |-> prerequisites, devPoints |-> devPoints]

(***************************************************************************)
(* graph.ts: calculateTiers                                                *)
(*                                                                         *)
(* st is the state of one calculateTiers call:                             *)
(*   tiers    - the memo Map<string, number>                               *)
(*   visiting - the Set<string> of nodes being resolved                    *)
(*   warnings - the node ids passed to console.warn, in order              *)
(*   calls    - instrumentation: number of getTier invocations so far      *)
(*   ret      - the value returned by the last getTier / loop              *)
(***************************************************************************)
RECURSIVE getTier(_, _, _)
RECURSIVE getTierPrereqs(_, _, _, _, _)

\* for (const prereqId of node.prerequisites) { ... Math.max ... }
\* from index i on, with the running maximum maxPrereqTier
getTierPrereqs(prerequisites, i, maxPrereqTier, nodeMap, st) ==
    IF i > Len(prerequisites)
    THEN [st EXCEPT !.ret = maxPrereqTier]
    ELSE LET r == getTier(prerequisites[i], nodeMap, st)
         IN  getTierPrereqs(prerequisites, i + 1,
                            Max(maxPrereqTier, r.ret), nodeMap, r)

RECURSIVE getTierWith(_, _, _, _)

\* getTier with one slip, named by bug:
\*   "noIncrement" - tier = maxPrereqTier, the + 1 forgotten
\*   "noExplicit"  - the explicit tier branch is missing
\*   "zeroBase"    - a node without prerequisites is cached as tier 0
\*   "cycleZero"   - a re-entered node counts as tier 0
\*   "noMemo"      - the computed tier is returned but not cached
\*   "noWarn"      - a re-entered node returns 1 without console.warn
getTierWith(nodeId, nodeMap, st0, bug) ==
    LET st == [st0 EXCEPT !.calls = @ + 1]
    IN
    IF nodeId \in DOMAIN st.tiers
    THEN [st EXCEPT !.ret = st.tiers[nodeId]]
    ELSE IF nodeId \notin DOMAIN nodeMap
    THEN [st EXCEPT !.ret = 1]
    ELSE IF bug # "noExplicit" /\ nodeMap[nodeId].tier # Undefined
    THEN [st EXCEPT !.tiers = MapSet(@, nodeId, nodeMap[nodeId].tier[1]),
                    !.ret = nodeMap[nodeId].tier[1]]
    ELSE IF nodeId \in st.visiting
    THEN [st EXCEPT !.warnings = IF bug = "noWarn" THEN @ ELSE Append(@, nodeId),
                    !.ret = IF bug = "cycleZero" THEN 0 ELSE 1]
    ELSE IF Len(nodeMap[nodeId].prerequisites) = 0
    THEN [st EXCEPT !.tiers = MapSet(@, nodeId, IF bug = "zeroBase" THEN 0 ELSE 1),
                    !.ret = IF bug = "zeroBase" THEN 0 ELSE 1]
    ELSE LET r == getTierPrereqs(nodeMap[nodeId].prerequisites, 1, 0, nodeMap,
                                 [st EXCEPT !.visiting = @ \cup {nodeId}])
             tier == IF bug = "noIncrement" THEN r.ret ELSE r.ret + 1
         IN  [r EXCEPT !.tiers = IF bug = "noMemo" THEN @
                                 ELSE MapSet(@, nodeId, tier),
                       !.visiting = @ \ {nodeId},
                       !.ret = tier]

getTierNoIncrement(nodeId, nodeMap, st0) ==
    getTierWith(nodeId, nodeMap, st0, "noIncrement")

getTierNoExplicit(nodeId, nodeMap, st0) ==
    getTierWith(nodeId, nodeMap, st0, "noExplicit")

getTierZeroBase(nodeId, nodeMap, st0) ==
    getTierWith(nodeId, nodeMap, st0, "zeroBase")

getTierCycleZero(nodeId, nodeMap, st0) ==
    getTierWith(nodeId, nodeMap, st0, "cycleZero")

getTierNoMemo(nodeId, nodeMap, st0) ==
    getTierWith(nodeId, nodeMap, st0, "noMemo")

getTierNoWarn(nodeId, nodeMap, st0) ==
    getTierWith(nodeId, nodeMap, st0, "noWarn")

\* function getTier(nodeId: string): number
getTier(nodeId, nodeMap, st0) ==
    LET st == [st0 EXCEPT !.calls = @ + 1]
    IN
    \* Return cached result
    IF nodeId \in DOMAIN st.tiers
    THEN [st EXCEPT !.ret = st.tiers[nodeId]]
    ELSE IF nodeId \notin DOMAIN nodeMap
    THEN [st EXCEPT !.ret = 1]
    \* If node has explicit tier, use it
    ELSE IF nodeMap[nodeId].tier # Undefined
    THEN [st EXCEPT !.tiers = MapSet(@, nodeId, nodeMap[nodeId].tier[1]),
                    !.ret = nodeMap[nodeId].tier[1]]
    \* Detect cycles
    ELSE IF nodeId \in st.visiting
    THEN [st EXCEPT !.warnings = Append(@, nodeId), !.ret = 1]
    \* No prerequisites = tier 1
    ELSE IF Len(nodeMap[nodeId].prerequisites) = 0
    THEN [st EXCEPT !.tiers = MapSet(@, nodeId, 1),
                    !.visiting = (@ \cup {nodeId}) \ {nodeId},
                    !.ret = 1]
    \* Tier = 1 + max prereq tier
    ELSE LET r == getTierPrereqs(nodeMap[nodeId].prerequisites, 1, 0, nodeMap,
                                 [st EXCEPT !.visiting = @ \cup {nodeId}])
         IN  [r EXCEPT !.tiers = MapSet(@, nodeId, r.ret + 1),
                       !.visiting = @ \ {nodeId},
                       !.ret = r.ret + 1]

RECURSIVE calculateTiersLoop(_, _, _, _)

\* for (const node of nodes) { getTier(node.id); }
calculateTiersLoop(nodes, i, nodeMap, st) ==
    IF i > Len(nodes) THEN st
    ELSE calculateTiersLoop(nodes, i + 1, nodeMap,
                            getTier(nodes[i].id, nodeMap, st))

calculateTiers(nodes, nodeMap) ==
    calculateTiersLoop(nodes, 1, nodeMap,
        [tiers |-> EmptyMap, visiting |-> {}, warnings |-> << >>,
         calls |-> 0, ret |-> 0])

(***************************************************************************)
(* graph.ts: computeTechTree                                               *)
(***************************************************************************)
RECURSIVE buildNodeMap(_, _, _)

\* first loop, nodeMap.set(node.id, node)
buildNodeMap(nodes, i, nodeMap) ==
    IF i > Len(nodes) THEN nodeMap
    ELSE buildNodeMap(nodes, i + 1, MapSet(nodeMap, nodes[i].id, nodes[i]))

RECURSIVE seedDependents(_, _, _)

\* first loop, dependentsMap.set(node.id, [])
seedDependents(nodes, i, dependentsMap) ==
    IF i > Len(nodes) THEN dependentsMap
    ELSE seedDependents(nodes, i + 1, MapSet(dependentsMap, nodes[i].id, << >>))

RECURSIVE pushDependentsReversed(_, _, _)

\* the edge pushed the wrong way round: the prerequisite is pushed onto
\* the node's own list
pushDependentsReversed(node, j, dependentsMap) ==
    IF j > Len(node.prerequisites) THEN dependentsMap
    ELSE LET prereq == node.prerequisites[j]
         IN  pushDependentsReversed(node, j + 1,
                IF node.id \in DOMAIN dependentsMap
                THEN MapSet(dependentsMap, node.id,
                            Append(dependentsMap[node.id], prereq))
                ELSE dependentsMap)

RECURSIVE pushDependents(_, _, _)

\* inner loop: for (const prereq of node.prerequisites) deps.push(node.id)
pushDependents(node, j, dependentsMap) ==
    IF j > Len(node.prerequisites) THEN dependentsMap
    ELSE LET prereq == node.prerequisites[j]
         IN  pushDependents(node, j + 1,
                IF prereq \in DOMAIN dependentsMap
                THEN MapSet(dependentsMap, prereq,
                            Append(dependentsMap[prereq], node.id))
                ELSE dependentsMap)

RECURSIVE buildDependents(_, _, _)

\* outer loop: for (const node of tree.nodes)
buildDependents(nodes, i, dependentsMap) ==
    IF i > Len(nodes) THEN dependentsMap
    ELSE buildDependents(nodes, i + 1, pushDependents(nodes[i], 1, dependentsMap))

\* computedTier: node.tier ?? tiers.get(node.id) ?? 1
computedTierOf(node, tiers) ==
    Coalesce(node.tier, Coalesce(MapGet(tiers, node.id), 1))

\* dependents: dependentsMap.get(node.id) ?? []
dependentsOf(node, dependentsMap) ==
    Coalesce(MapGet(dependentsMap, node.id), << >>)

\* the computed tier written into the raw field tier as well
computedNodesOfTierOverwritten(nodes, tiers, dependentsMap) ==
    [i \in 1..Len(nodes) |->
        [id            |-> nodes[i].id,
         tier          |-> Some(computedTierOf(nodes[i], tiers)),
         status        |-> nodes[i].status,
         prerequisites |-> nodes[i].prerequisites,
         devPoints     |-> nodes[i].devPoints,
         computedTier  |-> computedTierOf(nodes[i], tiers),
         dependents    |-> dependentsOf(nodes[i], dependentsMap)]]

\* tree.nodes.map((node) => ({ ...node, computedTier, dependents }))
computedNodesOf(nodes, tiers, dependentsMap) ==
    [i \in 1..Len(nodes) |->
        [id            |-> nodes[i].id,
         tier          |-> nodes[i].tier,
         status        |-> nodes[i].status,
         prerequisites |-> nodes[i].prerequisites,
         devPoints     |-> nodes[i].devPoints,
         computedTier  |-> computedTierOf(nodes[i], tiers),
         dependents    |-> dependentsOf(nodes[i], dependentsMap)]]

RECURSIVE groupByTierReset(_, _, _)

\* the has() check forgotten: every node starts its bucket afresh
groupByTierReset(computedNodes, i, tierGroups) ==
    IF i > Len(computedNodes) THEN tierGroups
    ELSE LET tier == computedNodes[i].computedTier
             has  == MapSet(tierGroups, tier, << >>)
         IN  groupByTierReset(computedNodes, i + 1,
                MapSet(has, tier, Append(has[tier], computedNodes[i])))

RECURSIVE groupByTier(_, _, _)

\* Group nodes by tier
groupByTier(computedNodes, i, tierGroups) ==
    IF i > Len(computedNodes) THEN tierGroups
    ELSE LET tier == computedNodes[i].computedTier
             has  == IF tier \in DOMAIN tierGroups
                     THEN tierGroups ELSE MapSet(tierGroups, tier, << >>)
         IN  groupByTier(computedNodes, i + 1,
                MapSet(has, tier, Append(has[tier], computedNodes[i])))

RECURSIVE sumDevPoints(_, _, _)
RECURSIVE sumDevPointsAnyStatus(_, _, _)

\* the status test forgotten: every node's points count as completed
sumDevPointsAnyStatus(computedNodes, i, acc) ==
    IF i > Len(computedNodes) THEN acc
    ELSE LET points == Coalesce(computedNodes[i].devPoints, 0)
         IN  sumDevPointsAnyStatus(computedNodes, i + 1,
                <<acc[1] + points, acc[2] + points>>)

\* Calculate dev points: acc is <<totalDevPoints, completedDevPoints>>
sumDevPoints(computedNodes, i, acc) ==
    IF i > Len(computedNodes) THEN acc
    ELSE LET points == Coalesce(computedNodes[i].devPoints, 0)
         IN  sumDevPoints(computedNodes, i + 1,
                <<acc[1] + points,
                  IF computedNodes[i].status = "completed"
                  THEN acc[2] + points ELSE acc[2]>>)

\* The ComputedTechTree, with the console output of the call (warnings) and
\* the number of getTier invocations (calls) recorded beside it.
computeTechTree(nodes) ==
    LET nodeMap       == buildNodeMap(nodes, 1, EmptyMap)
        dependentsMap == buildDependents(nodes, 1,
                             seedDependents(nodes, 1, EmptyMap))
        t             == calculateTiers(nodes, nodeMap)
        computedNodes == computedNodesOf(nodes, t.tiers, dependentsMap)
        points        == sumDevPoints(computedNodes, 1, <<0, 0>>)
    IN  [nodes              |-> computedNodes,
         tiers              |-> groupByTier(computedNodes, 1, EmptyMap),
         totalDevPoints     |-> points[1],
         completedDevPoints |-> points[2],
         warnings           |-> t.warnings,
         calls              |-> t.calls]

(***************************************************************************)
(* graph.ts: getNextTargets, canStartNode                                  *)
(***************************************************************************)
\* new Set(tree.nodes.filter((n) => n.status === "completed").map((n) => n.id))
completedIdsOf(ctree) ==
    {ctree.nodes[i].id : i \in {k \in DOMAIN ctree.nodes :
                                  ctree.nodes[k].status = "completed"}}

\* some instead of every: one completed prerequisite is enough
somePrereqCompleted(node, completedIds) ==
    \E j \in DOMAIN node.prerequisites : node.prerequisites[j] \in completedIds

\* node.prerequisites.every((prereq) => completedIds.has(prereq))
everyPrereqCompleted(node, completedIds) ==
    \A j \in DOMAIN node.prerequisites : node.prerequisites[j] \in completedIds

\* the in-progress nodes are not skipped
isNextTargetKeepsInProgress(node, completedIds) ==
    IF node.status = "completed"
    THEN FALSE
    ELSE everyPrereqCompleted(node, completedIds)

\* only planned nodes are kept
isNextTargetPlannedOnly(node, completedIds) ==
    IF node.status # "planned"
    THEN FALSE
    ELSE everyPrereqCompleted(node, completedIds)

\* the filter callback of getNextTargets
isNextTarget(node, completedIds) ==
    IF node.status = "completed" \/ node.status = "in-progress"
    THEN FALSE
    ELSE everyPrereqCompleted(node, completedIds)

RECURSIVE filterNextTargets(_, _, _, _)

\* Array.prototype.filter over tree.nodes, from index i on
filterNextTargets(nodes, i, completedIds, kept) ==
    IF i > Len(nodes) THEN kept
    ELSE filterNextTargets(nodes, i + 1, completedIds,
            IF isNextTarget(nodes[i], completedIds)
            THEN Append(kept, nodes[i]) ELSE kept)

getNextTargets(ctree) ==
    filterNextTargets(ctree.nodes, 1, completedIdsOf(ctree), << >>)

\* tree.nodes.find((n) => n.id === nodeId): the first match, or undefined
findNode(nodes, nodeId) ==
    LET hits == {i \in DOMAIN nodes : nodes[i].id = nodeId}
    IN  IF hits = {} THEN Undefined
        ELSE Some(nodes[CHOOSE i \in hits : \A k \in hits : i <= k])

canStartNode(nodeId, ctree) ==
    LET node == findNode(ctree.nodes, nodeId)
    IN  IF node = Undefined THEN FALSE
        ELSE everyPrereqCompleted(node[1], completedIdsOf(ctree))

(***************************************************************************)
(* AGENT_API.md, "Check what's ready to work on": the documented filter    *)
(***************************************************************************)
RECURSIVE filterReady(_, _, _, _)

\* tree.nodes.filter(n => n.status === 'planned' &&
\*                        n.prerequisites.every(p => completedIds.has(p)))
filterReady(nodes, i, completedIds, kept) ==
    IF i > Len(nodes) THEN kept
    ELSE filterReady(nodes, i + 1, completedIds,
            IF /\ nodes[i].status = "planned"
               /\ \A j \in DOMAIN nodes[i].prerequisites :
                     nodes[i].prerequisites[j] \in completedIds
            THEN Append(kept, nodes[i]) ELSE kept)

\* const ready = ... of the documented snippet
agentReady(ctree) ==
    filterReady(ctree.nodes, 1,
        {ctree.nodes[i].id : i \in {k \in DOMAIN ctree.nodes :
                                      ctree.nodes[k].status = "completed"}},
        << >>)

(***************************************************************************)
(* graph.ts: getAncestors, getDescendants                                  *)
(*                                                                         *)
(* st is the state of one call:                                            *)
(*   found    - the Set<string> being built (ancestors / descendants)      *)
(*   calls    - instrumentation: number of traverse invocations so far     *)
(*   expanded - instrumentation: the ids whose node traverse has looked    *)
(*              up and whose list it has walked, in order                  *)
(***************************************************************************)
RECURSIVE traverseAncestors(_, _, _)
RECURSIVE traverseAncestorsLoop(_, _, _, _)
RECURSIVE traverseAncestorsLoopShallow(_, _, _, _)

\* the recursive call forgotten: only the direct prerequisites are added
traverseAncestorsLoopShallow(prerequisites, j, nodeMap, st) ==
    IF j > Len(prerequisites) THEN st
    ELSE traverseAncestorsLoopShallow(prerequisites, j + 1, nodeMap,
            IF prerequisites[j] \notin st.found
            THEN [st EXCEPT !.found = @ \cup {prerequisites[j]}]
            ELSE st)

\* for (const prereq of node.prerequisites) { if (!ancestors.has(prereq)) ... }
traverseAncestorsLoop(prerequisites, j, nodeMap, st) ==
    IF j > Len(prerequisites) THEN st
    ELSE traverseAncestorsLoop(prerequisites, j + 1, nodeMap,
            IF prerequisites[j] \notin st.found
            THEN traverseAncestors(prerequisites[j], nodeMap,
                    [st EXCEPT !.found = @ \cup {prerequisites[j]}])
            ELSE st)

\* traverse adds the id it is called with to the result
traverseAncestorsAddSelf(id, nodeMap, st) ==
    IF id \notin DOMAIN nodeMap
    THEN [st EXCEPT !.calls = @ + 1]
    ELSE traverseAncestorsLoop(nodeMap[id].prerequisites, 1, nodeMap,
            [st EXCEPT !.calls = @ + 1, !.expanded = Append(@, id),
                       !.found = @ \cup {id}])

\* function traverse(id: string) of getAncestors
traverseAncestors(id, nodeMap, st) ==
    IF id \notin DOMAIN nodeMap
    THEN [st EXCEPT !.calls = @ + 1]
    ELSE traverseAncestorsLoop(nodeMap[id].prerequisites, 1, nodeMap,
            [st EXCEPT !.calls = @ + 1, !.expanded = Append(@, id)])

RECURSIVE traverseAncestorsByPath(_, _, _, _)
RECURSIVE traverseAncestorsByPathLoop(_, _, _, _, _)

\* getAncestors guarding against cycles by the ids on the current path
\* instead of the ids already found
traverseAncestorsByPathLoop(prerequisites, j, nodeMap, st, path) ==
    IF j > Len(prerequisites) THEN st
    ELSE traverseAncestorsByPathLoop(prerequisites, j + 1, nodeMap,
            IF prerequisites[j] \notin path
            THEN traverseAncestorsByPath(prerequisites[j], nodeMap,
                    [st EXCEPT !.found = @ \cup {prerequisites[j]}],
                    path \cup {prerequisites[j]})
            ELSE st,
            path)

traverseAncestorsByPath(id, nodeMap, st, path) ==
    IF id \notin DOMAIN nodeMap
    THEN [st EXCEPT !.calls = @ + 1]
    ELSE traverseAncestorsByPathLoop(nodeMap[id].prerequisites, 1, nodeMap,
            [st EXCEPT !.calls = @ + 1, !.expanded = Append(@, id)], path)

getAncestorsByPath(nodeId, ctree) ==
    traverseAncestorsByPath(nodeId, buildNodeMap(ctree.nodes, 1, EmptyMap),
        [found |-> {}, calls |-> 0, expanded |-> << >>], {})

getAncestors(nodeId, ctree) ==
    traverseAncestors(nodeId, buildNodeMap(ctree.nodes, 1, EmptyMap),
        [found |-> {}, calls |-> 0, expanded |-> << >>])

RECURSIVE traverseDescendants(_, _, _)
RECURSIVE traverseDescendantsLoop(_, _, _, _)
RECURSIVE traverseDescendantsLoopShallow(_, _, _, _)

\* the recursive call forgotten: only the direct dependents are added
traverseDescendantsLoopShallow(dependents, j, nodeMap, st) ==
    IF j > Len(dependents) THEN st
    ELSE traverseDescendantsLoopShallow(dependents, j + 1, nodeMap,
            IF dependents[j] \notin st.found
            THEN [st EXCEPT !.found = @ \cup {dependents[j]}]
            ELSE st)

\* for (const dep of node.dependents) { if (!descendants.has(dep)) ... }
traverseDescendantsLoop(dependents, j, nodeMap, st) ==
    IF j > Len(dependents) THEN st
    ELSE traverseDescendantsLoop(dependents, j + 1, nodeMap,
            IF dependents[j] \notin st.found
            THEN traverseDescendants(dependents[j], nodeMap,
                    [st EXCEPT !.found = @ \cup {dependents[j]}])
            ELSE st)

\* function traverse(id: string) of getDescendants
traverseDescendants(id, nodeMap, st) ==
    IF id \notin DOMAIN nodeMap
    THEN [st EXCEPT !.calls = @ + 1]
    ELSE traverseDescendantsLoop(nodeMap[id].dependents, 1, nodeMap,
            [st EXCEPT !.calls = @ + 1, !.expanded = Append(@, id)])

getDescendants(nodeId, ctree) ==
    traverseDescendants(nodeId, buildNodeMap(ctree.nodes, 1, EmptyMap),
        [found |-> {}, calls |-> 0, expanded |-> << >>])

(***************************************************************************)
(* parser.ts and schema.ts: parseTechTree                                  *)
(*                                                                         *)
(* The YAML text is modelled by what parseYaml makes of it: it throws, or  *)
(* it yields a value.  A value is null, a string, a number, an array or an *)
(* object (a function from the keys present to values).                    *)
(***************************************************************************)
\* the elements of a list
Range(s) == {s[i] : i \in DOMAIN s}

Null      == [type |-> "null"]
Str(s)    == [type |-> "string", str |-> s]
Num(n)    == [type |-> "number", num |-> n]
Arr(a)    == [type |-> "array", items |-> a]
Obj(f)    == [type |-> "object", fields |-> f]

\* obj[key]: undefined for a key the object does not have
Get(obj, key) ==
    IF key \in DOMAIN obj.fields THEN Some(obj.fields[key]) ELSE Undefined

\* issue.path.join(".") of a path extended by one key
JoinPath(path, key) == IF path = "" THEN key ELSE path \o "." \o key

\* a ZodIssue; message stands for the text zod gives the issue code
Issue(path, message) == [path |-> path, message |-> message]

Valid(value) == [value |-> value, issues |-> << >>]
Invalid(path, message) == [value |-> Undefined, issues |-> <<Issue(path, message)>>]

\* z.string().min(1)
zStringMin1(v, path) ==
    IF v = Undefined THEN Invalid(path, "Required")
    ELSE IF v[1].type # "string" THEN Invalid(path, "invalid_type")
    ELSE IF v[1].str = "" THEN Invalid(path, "too_small")
    ELSE Valid(v[1].str)

\* z.number().int().positive().optional()
zPositiveIntOptional(v, path) ==
    IF v = Undefined THEN Valid(Undefined)
    ELSE IF v[1].type # "number" THEN Invalid(path, "invalid_type")
    ELSE IF v[1].num <= 0 THEN Invalid(path, "too_small")
    ELSE Valid(Some(v[1].num))

\* z.number().int().nonnegative().optional()
zNonnegativeIntOptional(v, path) ==
    IF v = Undefined THEN Valid(Undefined)
    ELSE IF v[1].type # "number" THEN Invalid(path, "invalid_type")
    ELSE IF v[1].num < 0 THEN Invalid(path, "too_small")
    ELSE Valid(Some(v[1].num))

\* a wrong default
zStatusDefaultBlocked(v, path) ==
    IF v = Undefined THEN Valid("blocked")
    ELSE IF v[1].type # "string" THEN Invalid(path, "invalid_type")
    ELSE IF v[1].str \notin NodeStatus THEN Invalid(path, "invalid_enum_value")
    ELSE Valid(v[1].str)

\* NodeStatusSchema.default("planned")
zStatusDefault(v, path) ==
    IF v = Undefined THEN Valid("planned")
    ELSE IF v[1].type # "string" THEN Invalid(path, "invalid_type")
    ELSE IF v[1].str \notin NodeStatus THEN Invalid(path, "invalid_enum_value")
    ELSE Valid(v[1].str)

RECURSIVE zStrings(_, _, _, _)
\* the elements of z.array(z.string()), from index j on
zStrings(items, j, path, acc) ==
    IF j > Len(items) THEN acc
    ELSE zStrings(items, j + 1, path,
            IF items[j].type # "string"
            THEN [acc EXCEPT !.issues =
                     Append(@, Issue(JoinPath(path, ToString(j - 1)),
                                     "invalid_type"))]
            ELSE [acc EXCEPT !.value = Append(@, items[j].str)])

\* z.array(z.string()).default([])
zStringArrayDefault(v, path) ==
    IF v = Undefined THEN Valid(<< >>)
    ELSE IF v[1].type # "array" THEN Invalid(path, "invalid_type")
    ELSE zStrings(v[1].items, 1, path, Valid(<< >>))

\* TechNodeSchema: unknown keys are stripped, defaults are filled in; the
\* name is checked and, like the other descriptive fields, not carried on
zTechNode(raw, path) ==
    IF raw.type # "object" THEN Invalid(path, "invalid_type")
    ELSE LET id            == zStringMin1(Get(raw, "id"), JoinPath(path, "id"))
             name          == zStringMin1(Get(raw, "name"), JoinPath(path, "name"))
             tier          == zPositiveIntOptional(Get(raw, "tier"),
                                                   JoinPath(path, "tier"))
             status        == zStatusDefault(Get(raw, "status"),
                                             JoinPath(path, "status"))
             prerequisites == zStringArrayDefault(Get(raw, "prerequisites"),
                                  JoinPath(path, "prerequisites"))
             devPoints     == zNonnegativeIntOptional(Get(raw, "devPoints"),
                                  JoinPath(path, "devPoints"))
         IN  [value  |-> TechNode(id.value, tier.value, status.value,
                                  prerequisites.value, devPoints.value),
              issues |-> id.issues \o name.issues \o tier.issues
                         \o status.issues \o prerequisites.issues
                         \o devPoints.issues]

RECURSIVE zTechNodes(_, _, _, _)
\* the elements of z.array(TechNodeSchema), from index i on
zTechNodes(items, i, path, acc) ==
    IF i > Len(items) THEN acc
    ELSE LET node == zTechNode(items[i], JoinPath(path, ToString(i - 1)))
         IN  zTechNodes(items, i + 1, path,
                [value  |-> Append(acc.value, node.value),
                 issues |-> acc.issues \o node.issues])

\* z.array(TechNodeSchema).min(1)
zNodesMin1(v, path) ==
    IF v = Undefined THEN Invalid(path, "Required")
    ELSE IF v[1].type # "array" THEN Invalid(path, "invalid_type")
    ELSE LET elems == zTechNodes(v[1].items, 1, path, Valid(<< >>))
         IN  IF Len(v[1].items) < 1
             THEN [elems EXCEPT !.issues = Append(@, Issue(path, "too_small"))]
             ELSE elems

\* z.string().default("1.0.0")
zVersionDefault(v, path) ==
    IF v = Undefined THEN Valid("1.0.0")
    ELSE IF v[1].type # "string" THEN Invalid(path, "invalid_type")
    ELSE Valid(v[1].str)

\* TechTreeSchema.safeParse(rawData)
safeParse(rawData) ==
    IF rawData.type # "object"
    THEN [success |-> FALSE, issues |-> <<Issue("", "invalid_type")>>]
    ELSE LET name    == zStringMin1(Get(rawData, "name"), "name")
             version == zVersionDefault(Get(rawData, "version"), "version")
             nodes   == zNodesMin1(Get(rawData, "nodes"), "nodes")
             issues  == name.issues \o version.issues \o nodes.issues
         IN  IF issues # << >>
             THEN [success |-> FALSE, issues |-> issues]
             ELSE [success |-> TRUE,
                   data |-> [name |-> name.value, version |-> version.value,
                             nodes |-> nodes.value]]

\* `${path}: ${issue.message}` for every issue
formatZodErrors(issues) ==
    [k \in 1..Len(issues) |-> issues[k].path \o ": " \o issues[k].message]

RECURSIVE findDuplicates(_, _, _, _)
RECURSIVE findDuplicatesPerOccurrence(_, _, _, _)

\* duplicates kept in an array instead of a Set: one entry per repetition
findDuplicatesPerOccurrence(arr, k, seen, duplicates) ==
    IF k > Len(arr) THEN duplicates
    ELSE findDuplicatesPerOccurrence(arr, k + 1, seen \cup {arr[k]},
            IF arr[k] \in seen
            THEN Append(duplicates, arr[k]) ELSE duplicates)
\* the values met a second time, each once, in the order they were found
findDuplicates(arr, k, seen, duplicates) ==
    IF k > Len(arr) THEN duplicates
    ELSE findDuplicates(arr, k + 1, seen \cup {arr[k]},
            IF arr[k] \in seen /\ arr[k] \notin Range(duplicates)
            THEN Append(duplicates, arr[k]) ELSE duplicates)

RECURSIVE invalidPrereqsOfNode(_, _, _, _)
\* the inner loop over node.prerequisites
invalidPrereqsOfNode(node, j, nodeIds, invalidPrereqs) ==
    IF j > Len(node.prerequisites) THEN invalidPrereqs
    ELSE invalidPrereqsOfNode(node, j + 1, nodeIds,
            IF node.prerequisites[j] \notin nodeIds
            THEN Append(invalidPrereqs,
                        "Node \"" \o node.id \o "\" has invalid prerequisite \""
                            \o node.prerequisites[j] \o "\"")
            ELSE invalidPrereqs)

RECURSIVE invalidPrereqsOf(_, _, _, _)
\* the outer loop over result.data.nodes
invalidPrereqsOf(nodes, i, nodeIds, invalidPrereqs) ==
    IF i > Len(nodes) THEN invalidPrereqs
    ELSE invalidPrereqsOf(nodes, i + 1, nodeIds,
            invalidPrereqsOfNode(nodes[i], 1, nodeIds, invalidPrereqs))

Failure(error) == [success |-> FALSE, error |-> error, details |-> Undefined]

FailureWith(error, details) ==
    [success |-> FALSE, error |-> error, details |-> Some(details)]

\* the duplicate check forgotten
validateParsedNoDuplicateCheck(data) ==
    LET ids            == [i \in 1..Len(data.nodes) |-> data.nodes[i].id]
        invalidPrereqs == invalidPrereqsOf(data.nodes, 1, Range(ids), << >>)
    IN  IF Len(invalidPrereqs) > 0
        THEN FailureWith("Invalid prerequisites", invalidPrereqs)
        ELSE [success |-> TRUE, data |-> data]

\* the part of parseTechTree after the schema has accepted the data
validateParsed(data) ==
    LET ids            == [i \in 1..Len(data.nodes) |-> data.nodes[i].id]
        invalidPrereqs == invalidPrereqsOf(data.nodes, 1, Range(ids), << >>)
        duplicates     == findDuplicates(ids, 1, {}, << >>)
    IN  IF Len(invalidPrereqs) > 0
        THEN FailureWith("Invalid prerequisites", invalidPrereqs)
        ELSE IF Len(duplicates) > 0
        THEN FailureWith("Duplicate node IDs",
                [k \in 1..Len(duplicates) |->
                    "Duplicate ID: \"" \o duplicates[k] \o "\""])
        ELSE [success |-> TRUE, data |-> data]

\* yaml is what parseYaml does with the text: it throws an Error with a
\* message, or it returns a value
parseTechTree(yaml) ==
    IF yaml.kind = "throws"
    THEN Failure("YAML parse error: " \o yaml.message)
    ELSE IF yaml.value.type \notin {"object", "array"}
    THEN Failure("Invalid YAML: expected an object")
    ELSE LET parseResult == safeParse(yaml.value)
         IN  IF ~parseResult.success
             THEN FailureWith("Schema validation failed",
                              formatZodErrors(parseResult.issues))
             ELSE validateParsed(parseResult.data)

(***************************************************************************)
(* Input trees: what parseTechTree lets through (at least one node,        *)
(* unique ids, every prerequisite resolves; cycles, self references and    *)
(* duplicate prerequisite entries are allowed).                            *)
(***************************************************************************)
RECURSIVE SumTo(_, _)

SumTo(f, n) == IF n = 0 THEN 0 ELSE f[n] + SumTo(f, n - 1)

\* the entries of the flat list `targets` that belong to node i when the
\* nodes' prerequisite lists have lengths lens[1], lens[2], ...
Slice(targets, lens, i) ==
    [j \in 1..lens[i] |-> targets[SumTo(lens, i - 1) + j]]

TierChoices == {Undefined} \cup {Some(t) : t \in 1..MaxTier}

\* the tree of the n nodes Names[1..n], in this order, whose explicit tiers
\* are tiers[i] and whose prerequisite lists are the slices of targets
MkTree(n, tiers, lens, targets) ==
    [i \in 1..n |->
        TechNode(Names[i], tiers[i], "planned",
                 Slice(targets, lens, i), Undefined)]

\* the explicit tiers of the n nodes
ExplicitTiers(n) ==
    {t \in [1..n -> TierChoices] :
        Cardinality({i \in 1..n : t[i] # Undefined}) <= MaxExplicit}

\* the lengths of the n prerequisite lists
PrereqLens(n) == {l \in [1..n -> 0..MaxEdges] : SumTo(l, n) <= MaxEdges}

NoResult ==
    [nodes |-> << >>, tiers |-> EmptyMap, totalDevPoints |-> 0,
     completedDevPoints |-> 0, warnings |-> << >>, calls |-> 0]

\* nothing handed to parseTechTree, nothing returned by it
NoInput == [kind |-> "none"]

NoParse == [success |-> FALSE, error |-> "", details |-> Undefined]

\* no query operation has run
NoQuery == [op |-> "none"]

\* no server, no viewer: the values of their variables where neither runs
NoApp == [treePath |-> <<"system">>, tree |-> Undefined, error |-> Undefined,
          loading |-> TRUE]

NoServer ==
    /\ files = << >>
    /\ requests = << >>
    /\ app = NoApp
    /\ fetches = << >>

(***************************************************************************)
(* The state machine: a validated tree is loaded, then computed.           *)
(***************************************************************************)
Init ==
    /\ \E n \in 1..MaxNodes :
         \E tiers \in ExplicitTiers(n) :
           \E lens \in PrereqLens(n) :
             \E targets \in [1..SumTo(lens, n) -> {Names[i] : i \in 1..n}] :
               tree = MkTree(n, tiers, lens, targets)
    /\ pc = "loaded"
    /\ result = NoResult
    /\ input = NoInput
    /\ parsed = NoParse
    /\ query = NoQuery
    /\ NoServer

Compute ==
    /\ pc = "loaded"
    /\ result' = computeTechTree(tree)
    /\ pc' = "computed"
    /\ UNCHANGED <<tree, input, parsed, query,
                 files, requests, app, fetches>>

Next == Compute

Spec == Init /\ [][Next]_vars

(***************************************************************************)
(* Dev point totals.  The trees vary the status and the devPoints of every *)
(* node; the totals read nothing else.                                     *)
(***************************************************************************)
MaxPoints == 1

\* devPoints: z.number().int().nonnegative().optional()
DevPointChoices == {Undefined} \cup {Some(p) : p \in 0..MaxPoints}

InitPoints ==
    /\ \E n \in 1..MaxNodes :
         \E statuses \in [1..n -> NodeStatus] :
           \E points \in [1..n -> DevPointChoices] :
             tree = [i \in 1..n |->
                       TechNode(Names[i], Undefined, statuses[i], << >>,
                                points[i])]
    /\ pc = "loaded"
    /\ result = NoResult
    /\ input = NoInput
    /\ parsed = NoParse
    /\ query = NoQuery
    /\ NoServer

NextPoints == Compute

SpecPoints == InitPoints /\ [][NextPoints]_vars

NoTiers(n) == [i \in 1..n |-> Undefined]

\* an id no node of any tree has
UnknownId == "ghost"

\* A query reads the computed tree and changes nothing of it, so every
\* answer is seen by asking one query of each tree: query holds the answer.
\* The ids a query is asked about: every node of the tree, and an unknown id
QueryIds == {result.nodes[i].id : i \in DOMAIN result.nodes} \cup {UnknownId}

(***************************************************************************)
(* Readiness queries on a computed tree.  The trees are the validated      *)
(* trees without explicit tiers, with every assignment of statuses.        *)
(***************************************************************************)
InitReady ==
    /\ \E n \in 1..MaxNodes :
         \E lens \in PrereqLens(n) :
           \E targets \in [1..SumTo(lens, n) -> {Names[i] : i \in 1..n}] :
             \E statuses \in [1..n -> NodeStatus] :
               tree = [i \in 1..n |->
                         [MkTree(n, NoTiers(n), lens, targets)[i]
                             EXCEPT !.status = statuses[i]]]
    /\ pc = "loaded"
    /\ result = NoResult
    /\ input = NoInput
    /\ parsed = NoParse
    /\ query = NoQuery
    /\ NoServer

\* useTechTree: nextTargets = getNextTargets(tree)
NextTargets ==
    /\ pc = "computed"
    /\ query = NoQuery
    /\ query' = [op |-> "nextTargets", ret |-> getNextTargets(result)]
    /\ UNCHANGED <<tree, pc, result, input, parsed,
                 files, requests, app, fetches>>

CanStart ==
    /\ pc = "computed"
    /\ query = NoQuery
    /\ \E nodeId \in QueryIds :
         query' = [op |-> "canStart", arg |-> nodeId,
                   ret |-> canStartNode(nodeId, result)]
    /\ UNCHANGED <<tree, pc, result, input, parsed,
                 files, requests, app, fetches>>

NextReady == Compute \/ NextTargets \/ CanStart

SpecReady == InitReady /\ [][NextReady]_vars

(***************************************************************************)
(* Traversal queries on a computed tree.  The trees are the validated      *)
(* trees without explicit tiers (the traversals never read a tier).        *)
(***************************************************************************)
InitTraverse ==
    /\ \E n \in 1..MaxNodes :
         \E lens \in PrereqLens(n) :
           \E targets \in [1..SumTo(lens, n) -> {Names[i] : i \in 1..n}] :
             tree = MkTree(n, NoTiers(n), lens, targets)
    /\ pc = "loaded"
    /\ result = NoResult
    /\ input = NoInput
    /\ parsed = NoParse
    /\ query = NoQuery
    /\ NoServer

Ancestors ==
    /\ pc = "computed"
    /\ query = NoQuery
    /\ \E nodeId \in QueryIds :
         \E r \in {getAncestors(nodeId, result)} :
           query' = [op |-> "ancestors", arg |-> nodeId, ret |-> r.found,
                     calls |-> r.calls, expanded |-> r.expanded]
    /\ UNCHANGED <<tree, pc, result, input, parsed,
                 files, requests, app, fetches>>

Descendants ==
    /\ pc = "computed"
    /\ query = NoQuery
    /\ \E nodeId \in QueryIds :
         \E r \in {getDescendants(nodeId, result)} :
           query' = [op |-> "descendants", arg |-> nodeId, ret |-> r.found,
                     calls |-> r.calls, expanded |-> r.expanded]
    /\ UNCHANGED <<tree, pc, result, input, parsed,
                 files, requests, app, fetches>>

NextTraverse == Compute \/ Ancestors \/ Descendants

SpecTraverse == InitTraverse /\ [][NextTraverse]_vars

(***************************************************************************)
(* Loading a YAML text (useTechTree.loadFromYaml).  The inputs are:        *)
(*   - texts parseYaml rejects, and values that are not a tree object;     *)
(*   - trees whose nodes are well-formed and whose ids and prerequisites   *)
(*     vary: ids may repeat, a prerequisite may name no node;              *)
(*   - trees whose nodes vary field by field, valid and invalid.           *)
(***************************************************************************)
\* the id lists of n nodes up to renaming: node 1 is called Names[1], a
\* later node repeats an earlier id or takes the next unused name
IdLists(n) ==
    {[i \in 1..n |-> Names[f[i]]] :
        f \in {g \in [1..n -> 1..n] :
                 /\ g[1] = 1
                 /\ \A i \in 2..n : \E k \in 1..(i - 1) : g[i] <= g[k] + 1}}

\* a well-formed raw node
RawNode(id, prerequisites) ==
    Obj([id |-> Str(id), name |-> Str("node"),
         prerequisites |-> Arr([j \in 1..Len(prerequisites) |->
                                   Str(prerequisites[j])])])

\* raw nodes that differ field by field; the first two are valid
RawNodeVariants(id) ==
    <<Obj([id |-> Str(id), name |-> Str("node")]),
      Obj([id |-> Str(id), name |-> Str("node"), tier |-> Num(1),
           status |-> Str("completed"), prerequisites |-> Arr(<< >>),
           devPoints |-> Num(0), color |-> Str("red")]),
      Obj([id |-> Str(id)]),
      Obj([id |-> Str(""), name |-> Str("node")]),
      Obj([id |-> Str(id), name |-> Str("node"), tier |-> Num(0)]),
      Obj([id |-> Str(id), name |-> Str("node"), status |-> Str("done")]),
      Obj([id |-> Str(id), name |-> Str("node"), devPoints |-> Num(-1)]),
      Obj([id |-> Str(id), name |-> Str("node"), prerequisites |-> Str(id)]),
      Obj([id |-> Str(id), name |-> Str("node"),
           prerequisites |-> Arr(<<Num(1)>>)]),
      Str(id)>>

RawTree(nodes) == Obj([name |-> Str("tree"), nodes |-> Arr(nodes)])

Yaml(value) == [kind |-> "value", value |-> value]

\* texts that are no tree: a syntax error, null, scalars, a list, and
\* objects whose name or nodes are missing or wrong
NoTreeInputs ==
    <<[kind |-> "throws", message |-> "bad indentation"],
      Yaml(Null),
      Yaml(Str("tree")),
      Yaml(Num(1)),
      Yaml(Arr(<< >>)),
      Yaml(Obj([nodes |-> Arr(<<RawNode("A", << >>)>>)])),
      Yaml(Obj([name |-> Str(""), nodes |-> Arr(<<RawNode("A", << >>)>>)])),
      Yaml(Obj([name |-> Str("tree")])),
      Yaml(Obj([name |-> Str("tree"), nodes |-> Arr(<< >>)])),
      Yaml(Obj([name |-> Str("tree"), nodes |-> Str("A")])),
      Yaml(Obj([name |-> Str("tree"), version |-> Num(1),
                nodes |-> Arr(<<RawNode("A", << >>)>>)]))>>

\* trees that break the rules of more than one check at once
MixedFaultInputs ==
    <<Yaml(RawTree(<<Obj([id |-> Str("A"), name |-> Str("node"),
                          status |-> Str("done")]),
                     RawNode("B", <<UnknownId>>)>>)),
      Yaml(RawTree(<<Obj([id |-> Str("A"), name |-> Str("node"),
                          tier |-> Num(0)]),
                     RawNode("B", << >>), RawNode("B", << >>)>>)),
      Yaml(RawTree(<<Obj([id |-> Str("A")]),
                     RawNode("B", <<UnknownId>>),
                     RawNode("B", << >>)>>))>>

InitParse ==
    /\ \/ \E k \in DOMAIN NoTreeInputs : input = NoTreeInputs[k]
       \/ \E k \in DOMAIN MixedFaultInputs : input = MixedFaultInputs[k]
       \/ \E n \in 1..MaxNodes :
            \E ids \in IdLists(n) :
              \E lens \in PrereqLens(n) :
                \E targets \in [1..SumTo(lens, n) ->
                                  {Names[i] : i \in 1..n} \cup {UnknownId}] :
                  input = Yaml(RawTree([i \in 1..n |->
                              RawNode(ids[i], Slice(targets, lens, i))]))
       \/ \E n \in 1..MaxNodes :
            \E v \in [1..n -> DOMAIN RawNodeVariants("A")] :
              input = Yaml(RawTree([i \in 1..n |->
                          RawNodeVariants(Names[i])[v[i]]]))
    /\ tree = << >>
    /\ pc = "idle"
    /\ result = NoResult
    /\ parsed = NoParse
    /\ query = NoQuery
    /\ NoServer

\* loadFromYaml: parse; on failure keep the error and no tree, on success
\* compute the tree
LoadFromYaml ==
    /\ pc = "idle"
    /\ \E r \in {parseTechTree(input)} :
         /\ parsed' = r
         /\ IF ~r.success
            THEN /\ tree' = << >>
                 /\ result' = NoResult
                 /\ pc' = "failed"
            ELSE /\ tree' = r.data.nodes
                 /\ result' = computeTechTree(r.data.nodes)
                 /\ pc' = "computed"
    /\ UNCHANGED <<input, query,
                 files, requests, app, fetches>>

NextParse == LoadFromYaml

SpecParse == InitParse /\ [][NextParse]_vars

(***************************************************************************)
(* store.ts: MultiTreeStore.  A file holds what parseYaml makes of its     *)
(* text; a tree in memory and a JSON request body are values of the same   *)
(* kind.  An async method is modelled by the synchronous stretches between *)
(* its awaits: each returns or throws, or names the file write it awaits.  *)
(***************************************************************************)
DEFAULT_TREE == "system"

\* the keys of a node the graph reads, which the model carries through
\* parsing and computing
CarriedKeys == {"id", "tier", "status", "prerequisites", "devPoints"}

\* a node written out again: every field it has, absent ones left out (the
\* name stands for the descriptive fields, which the model does not carry)
ToRawNode(node) ==
    [id |-> Str(node.id), name |-> Str("node"), status |-> Str(node.status),
     prerequisites |-> Arr([j \in DOMAIN node.prerequisites |->
                               Str(node.prerequisites[j])])]
    @@ (IF node.tier = Undefined THEN << >> ELSE "tier" :> Num(node.tier[1]))
    @@ (IF node.devPoints = Undefined THEN << >>
        ELSE "devPoints" :> Num(node.devPoints[1]))


\* an Error; kind is the text the routes look for in its message
Throw(kind, message) == [ok |-> FALSE, kind |-> kind, error |-> message]

Return(value) == [ok |-> TRUE, value |-> value]

\* stringify(tree): the text parseYaml reads back as the same value
stringify(memTree) == Yaml(memTree)

\* readFile(this.getFilePath(name), "utf-8")
readFile(fs, name) ==
    IF name \in DOMAIN fs THEN Return(fs[name])
    ELSE Throw("ENOENT", "ENOENT: no such file or directory " \o name)

\* the optional string fields of TechNodeSchema the graph does not read
DeclaredStrings == {"description", "repo", "blockedReason", "subtree"}

\* what the schema makes of the fields of a raw node the model does not
\* carry: the name, the optional strings that are present, the tags or
\* their default
declaredRest(rawNode) ==
    [k \in ({"name"} \cup DeclaredStrings) \cap DOMAIN rawNode.fields |->
        rawNode.fields[k]]
    @@ ("tags" :> (IF "tags" \in DOMAIN rawNode.fields
                   THEN rawNode.fields.tags ELSE Arr(<< >>)))

\* result.data as an object: the declared fields of every node with the
\* defaults filled in, undeclared keys stripped
dataAsObject(rawData, data) ==
    Obj([name    |-> Str(data.name),
         version |-> Str(data.version),
         nodes   |-> Arr([i \in DOMAIN data.nodes |->
                            Obj(declaredRest(rawData.fields.nodes.items[i])
                                @@ ToRawNode(data.nodes[i]))])])

\* MultiTreeStore.loadRaw once the file is parsed
loadRawParsed(name, rawData, parseResult) ==
    IF ~parseResult.success
    THEN Throw("other", "Failed to parse tree '" \o name \o "': "
                           \o parseResult.error)
    ELSE Return(dataAsObject(rawData, parseResult.data))

\* MultiTreeStore.loadRaw once the file is read
loadRawRead(name, content) ==
    IF ~content.ok THEN content
    ELSE loadRawParsed(name, content.value.value, parseTechTree(content.value))

\* MultiTreeStore.loadRaw
loadRaw(fs, name) == loadRawRead(name, readFile(fs, name))

\* the nodes of a tree in memory
MemNodes(memTree) == memTree.fields.nodes.items

\* a function without the keys in drop
Without(f, drop) == [k \in (DOMAIN f) \ drop |-> f[k]]

\* computeTechTree(tree) for a tree in memory that the schema accepts: the
\* computed tree over the fields the graph reads, and beside it what the
\* spread ...node copies of every other key of each node
computedOf(memTree) ==
    [computed |-> computeTechTree([i \in DOMAIN MemNodes(memTree) |->
                                      zTechNode(MemNodes(memTree)[i], "").value]),
     name     |-> memTree.fields.name,
     carried  |-> [i \in DOMAIN MemNodes(memTree) |->
                      Without(MemNodes(memTree)[i].fields, CarriedKeys)]]

\* MultiTreeStore.load once loadRaw's steps are done
loadComputed(raw) == IF ~raw.ok THEN raw ELSE Return(computedOf(raw.value))

\* MultiTreeStore.load
load(fs, name) == loadComputed(loadRaw(fs, name))

\* the mistake of writing whatever it is given
saveUnvalidated(name, memTree) ==
    Return([name |-> name, content |-> stringify(memTree)])

\* MultiTreeStore.save once the tree is validated
saveValidated(name, memTree, parseResult) ==
    IF ~parseResult.success
    THEN Throw("other", "Invalid tree data: " \o parseResult.error)
    ELSE Return([name |-> name, content |-> stringify(memTree)])

\* MultiTreeStore.save up to its await: throws, or returns the writeFile it
\* awaits
save(name, memTree) ==
    saveValidated(name, memTree, parseTechTree(stringify(memTree)))

\* the own enumerable properties of a value, as the spread ...value sees them
SpreadOf(value) ==
    CASE value.type = "object" -> value.fields
      [] value.type = "array"  ->
            [k \in {ToString(j - 1) : j \in DOMAIN value.items} |->
                value.items[CHOOSE j \in DOMAIN value.items : ToString(j - 1) = k]]
      [] OTHER -> << >>

\* tree.nodes.findIndex((n) => n.id === nodeId), 0 for -1
findIndex(nodes, nodeId) ==
    LET hits == {i \in DOMAIN nodes : nodes[i].fields.id.str = nodeId}
    IN  IF hits = {} THEN 0 ELSE CHOOSE i \in hits : \A k \in hits : i <= k

\* await this.save(name, tree); return computeTechTree(tree): the changed
\* tree and the write awaited, or what save throws
changedTree(changed, saved) ==
    IF ~saved.ok THEN saved
    ELSE Return([tree |-> changed, write |-> saved.value])

saveChanged(treeName, changed) == changedTree(changed, save(treeName, changed))

\* MultiTreeStore.updateNode once the node is looked up
updateNodeAt(treeName, memTree, nodeIndex, nodeId, updates) ==
    IF nodeIndex = 0
    THEN Throw("not found", "Node not found: " \o nodeId)
    ELSE saveChanged(treeName,
            [memTree EXCEPT !.fields.nodes.items[nodeIndex] =
                Obj(SpreadOf(updates) @@ @.fields)])

\* MultiTreeStore.updateNode after loadRaw has returned memTree, up to the
\* await in save: the tree with the node replaced, and the write awaited
updateNodeLoaded(treeName, memTree, nodeId, updates) ==
    updateNodeAt(treeName, memTree, findIndex(MemNodes(memTree), nodeId),
                 nodeId, updates)

\* MultiTreeStore.addNode after loadRaw has returned memTree, up to the
\* await in save
addNodeLoaded(treeName, memTree, node) ==
    IF \E i \in DOMAIN MemNodes(memTree) :
          MemNodes(memTree)[i].fields.id.str = node.fields.id.str
    THEN Throw("already exists", "Node already exists: " \o node.fields.id.str)
    ELSE saveChanged(treeName,
            [memTree EXCEPT !.fields.nodes.items = Append(@, node)])

\* writeFile(this.getFilePath(name), content, "utf-8")
writeFile(fs, name, content) ==
    [n \in DOMAIN fs \cup {name} |-> IF n = name THEN content ELSE fs[n]]

(***************************************************************************)
(* routes.ts: PATCH /trees/:name/nodes/:id and POST /subtrees, each as the *)
(* stretches between the awaits of the handler and of the store methods it *)
(* calls.  A request record keeps the handler's locals and, for the        *)
(* properties, the files as they were when the handler started (before),   *)
(* as they were when it answered (after), and the files it wrote (wrote).  *)
(***************************************************************************)
\* slugify for the tree names the requests use
slugify(name) ==
    CASE name = "Feature"    -> "feature"
      [] name = "My Feature" -> "my-feature"
      [] OTHER               -> name

\* the id kept in the update
keepId(updates) == updates

\* delete updates.id
deleteId(updates) ==
    IF updates.type = "object"
    THEN Obj(Without(updates.fields, {"id"}))
    ELSE updates

\* the status the catch block of PATCH /trees/:name/nodes/:id answers with
patchErrorStatus(kind) ==
    CASE kind = "not found" -> 404
      [] kind = "ENOENT"    -> 404
      [] OTHER              -> 400

\* the status the catch block of POST /subtrees answers with
subtreeErrorStatus(kind) ==
    CASE kind = "not found"      -> 404
      [] kind = "already exists" -> 409
      [] OTHER                   -> 400

Idle == [pc |-> "idle", route |-> "none", status |-> 0, wrote |-> {}]

Answer(req, status, value, fs) ==
    [req EXCEPT !.pc = "done", !.status = status, !.value = value,
                !.after = fs]

\* a request as the handler receives it
Received(route, fs) ==
    [pc |-> "received", route |-> route, status |-> 0, wrote |-> {},
     value |-> Undefined, before |-> fs, after |-> fs,
     name |-> "", id |-> "", body |-> Null, mem |-> Null,
     pending |-> Undefined, slug |-> "", attachTo |-> Undefined,
     treeName |-> ""]

\* PATCH /trees/:name/nodes/:id once updateNode has thrown or reached its
\* write: the catch block's answer, or the write awaited
patchUpdated(req, r, fs) ==
    IF ~r.ok
    THEN Answer(req, patchErrorStatus(r.kind), r.error, fs)
    ELSE [req EXCEPT !.pc = "writing", !.mem = r.value.tree,
                     !.pending = Some(r.value.write)]

\* PATCH /trees/:name/nodes/:id once loadRaw is done
patchLoaded(req, raw, fs) ==
    IF ~raw.ok
    THEN Answer(req, patchErrorStatus(raw.kind), raw.error, fs)
    ELSE patchUpdated(req,
            updateNodeLoaded(req.name, raw.value, req.id, deleteId(req.body)),
            fs)

\* PATCH /trees/:name/nodes/:id up to the await in save
patchStarted(req, fs) ==
    IF req.body.type \notin {"object", "array"}
    THEN Answer(req, 400, "Invalid update format", fs)
    ELSE patchLoaded(req, loadRaw(fs, req.name), fs)

patchReceived(fs, name, id, body) ==
    patchStarted([Received("patch", fs) EXCEPT !.name = name, !.id = id,
                                              !.body = body], fs)

\* the request after the writeFile it awaited: the store method returns
\* computeTechTree(tree)
written(req) ==
    [req EXCEPT !.wrote = @ \cup {req.pending[1].name},
                !.pending = Undefined]

\* POST /subtrees once the tree's name is slugified
subtreeNamed(req, subtreeName, fs) ==
    IF subtreeName \in DOMAIN fs
    THEN Answer(req, 409, "Subtree already exists: " \o subtreeName, fs)
    ELSE [req EXCEPT !.pc = "creating", !.slug = subtreeName]

\* POST /subtrees once the yaml is parsed
subtreeParsed(req, parseResult, fs) ==
    IF ~parseResult.success
    THEN Answer(req, 400, "Invalid YAML: " \o parseResult.error, fs)
    ELSE subtreeNamed([req EXCEPT !.treeName = parseResult.data.name],
                      slugify(parseResult.data.name), fs)

\* POST /subtrees up to the await of store.exists: the yaml is the body's
\* yaml field as parseYaml takes it, undefined when the field is missing
subtreeReceived(fs, yaml, attachTo) ==
    IF yaml = Undefined
    THEN Answer([Received("subtrees", fs) EXCEPT !.attachTo = attachTo],
                400, "Missing or invalid 'yaml' field", fs)
    ELSE subtreeParsed([Received("subtrees", fs) EXCEPT
                           !.attachTo = attachTo, !.body = yaml[1]],
                       parseTechTree(yaml[1]), fs)

\* MultiTreeStore.createFromYaml once the yaml is parsed
createParsed(req, parseResult, fs) ==
    IF ~parseResult.success
    THEN Answer(req, 400, "Invalid YAML: " \o parseResult.error, fs)
    ELSE [req EXCEPT !.pc = "writingSubtree",
                     !.pending = Some([name |-> req.slug,
                                       content |-> req.body])]

\* MultiTreeStore.createFromYaml up to its writeFile
createFromYaml(fs, req) ==
    IF req.slug \in DOMAIN fs
    THEN Answer(req, subtreeErrorStatus("already exists"),
                "Tree already exists: " \o req.slug, fs)
    ELSE createParsed(req, parseTechTree(req.body), fs)

\* the node POST /subtrees adds to the system tree
newSystemNode(req) ==
    Obj([id            |-> Str(req.slug),
         name          |-> Str(req.treeName),
         status        |-> Str("planned"),
         prerequisites |-> Arr(<< >>),
         subtree       |-> Str(req.slug),
         tags          |-> Arr(<< >>)])

\* POST /subtrees once updateNode or addNode has thrown or reached its
\* write: the catch block's answer, or the write awaited
attachUpdated(req, r, fs) ==
    IF ~r.ok
    THEN Answer(req, subtreeErrorStatus(r.kind), r.error, fs)
    ELSE [req EXCEPT !.pc = "writingSystem", !.mem = r.value.tree,
                     !.pending = Some(r.value.write)]

\* POST /subtrees once loadRaw of the system tree is done
attachLoaded(req, raw, fs) ==
    IF ~raw.ok
    THEN Answer(req, subtreeErrorStatus(raw.kind), raw.error, fs)
    ELSE attachUpdated(req,
            IF req.attachTo # Undefined
            THEN updateNodeLoaded(DEFAULT_TREE, raw.value, req.attachTo[1],
                                  Obj([subtree |-> Str(req.slug)]))
            ELSE addNodeLoaded(DEFAULT_TREE, raw.value, newSystemNode(req)),
            fs)

\* POST /subtrees after createFromYaml: updateNode or addNode on the system
\* tree, up to the await in save
attachSubtree(fs, req) == attachLoaded(req, loadRaw(fs, DEFAULT_TREE), fs)

(***************************************************************************)
(* The server with two clients, each sending one request.  The store holds *)
(* the system tree, a chain of nodes, and possibly the tree "feature".     *)
(***************************************************************************)
Clients == {"c1", "c2"}

\* the ids of a system tree of n nodes; the last may have the id that the
\* slug of a new subtree would take
SystemIds(n, taken) ==
    [i \in 1..n |-> IF taken /\ i = n THEN "feature" ELSE Names[i]]

SystemTree(n, taken) ==
    Yaml(Obj([name  |-> Str(DEFAULT_TREE),
              nodes |-> Arr([i \in 1..n |->
                          RawNode(SystemIds(n, taken)[i],
                                  IF i = 1 THEN << >>
                                  ELSE <<SystemIds(n, taken)[i - 1]>>)])]))

FeatureTree ==
    Yaml(Obj([name |-> Str("Feature"), version |-> Str("1.0.0"),
              nodes |-> Arr(<<Obj([id |-> Str("step"), name |-> Str("Step"),
                                   status |-> Str("planned")])>>)]))

\* the bodies of the PATCH requests
PatchBodies ==
    <<Obj([status |-> Str("completed")]),
      Obj([devPoints |-> Num(1)]),
      Obj([status |-> Str("done")]),
      Obj([prerequisites |-> Arr(<<Str(UnknownId)>>)]),
      Obj([id |-> Str("Z"), status |-> Str("blocked")]),
      Obj([status |-> Str("in-progress"), color |-> Str("red")]),
      Arr(<<Str("x")>>),
      Null>>

\* the yaml fields of the POST /subtrees requests
SubtreeYamls ==
    <<Undefined, Some([kind |-> "throws", message |-> "bad indentation"]),
      Some(FeatureTree)>>

InitServer ==
    /\ \E n \in 1..MaxNodes :
         \E taken \in BOOLEAN :
           \E present \in BOOLEAN :
             files = IF present
                     THEN [f \in {DEFAULT_TREE, "feature"} |->
                             IF f = DEFAULT_TREE THEN SystemTree(n, taken)
                             ELSE FeatureTree]
                     ELSE [f \in {DEFAULT_TREE} |-> SystemTree(n, taken)]
    /\ requests = [c \in Clients |-> Idle]
    /\ tree = << >>
    /\ pc = "serving"
    /\ result = NoResult
    /\ input = NoInput
    /\ parsed = NoParse
    /\ query = NoQuery
    /\ app = NoApp
    /\ fetches = << >>

\* the ids of the nodes of the system tree file
SystemNodeIds ==
    {files[DEFAULT_TREE].value.fields.nodes.items[i].fields.id.str :
        i \in DOMAIN files[DEFAULT_TREE].value.fields.nodes.items}

PatchReceive(c) ==
    /\ requests[c].pc = "idle"
    /\ \/ \E id \in SystemNodeIds \cup {UnknownId} :
            \E b \in DOMAIN PatchBodies :
              requests' = [requests EXCEPT ![c] =
                  patchReceived(files, DEFAULT_TREE, id, PatchBodies[b])]
       \/ requests' = [requests EXCEPT ![c] =
              patchReceived(files, "nope", Names[1], PatchBodies[1])]
    /\ UNCHANGED <<tree, pc, result, input, parsed, query, files, app, fetches>>

PatchWrite(c) ==
    /\ requests[c].pc = "writing"
    /\ files' = writeFile(files, requests[c].pending[1].name,
                          requests[c].pending[1].content)
    /\ requests' = [requests EXCEPT ![c] =
          Answer(written(requests[c]), 200, computedOf(requests[c].mem), files')]
    /\ UNCHANGED <<tree, pc, result, input, parsed, query, app, fetches>>

SubtreeReceive(c) ==
    /\ requests[c].pc = "idle"
    /\ \E y \in DOMAIN SubtreeYamls :
         \E attachTo \in {Undefined, Some(Names[1]), Some(UnknownId)} :
           requests' = [requests EXCEPT ![c] =
               subtreeReceived(files, SubtreeYamls[y], attachTo)]
    /\ UNCHANGED <<tree, pc, result, input, parsed, query, files, app, fetches>>

SubtreeCreate(c) ==
    /\ requests[c].pc = "creating"
    /\ requests' = [requests EXCEPT ![c] = createFromYaml(files, requests[c])]
    /\ UNCHANGED <<tree, pc, result, input, parsed, query, files, app, fetches>>

SubtreeWriteFile(c) ==
    /\ requests[c].pc = "writingSubtree"
    /\ files' = writeFile(files, requests[c].pending[1].name,
                          requests[c].pending[1].content)
    /\ requests' = [requests EXCEPT ![c] =
          [written(requests[c]) EXCEPT !.pc = "attaching"]]
    /\ UNCHANGED <<tree, pc, result, input, parsed, query, app, fetches>>

SubtreeAttach(c) ==
    /\ requests[c].pc = "attaching"
    /\ requests' = [requests EXCEPT ![c] = attachSubtree(files, requests[c])]
    /\ UNCHANGED <<tree, pc, result, input, parsed, query, files, app, fetches>>

SubtreeWriteSystem(c) ==
    /\ requests[c].pc = "writingSystem"
    /\ files' = writeFile(files, requests[c].pending[1].name,
                          requests[c].pending[1].content)
    /\ requests' = [requests EXCEPT ![c] =
          Answer(written(requests[c]), 201, computedOf(requests[c].mem), files')]
    /\ UNCHANGED <<tree, pc, result, input, parsed, query, app, fetches>>

NextServer ==
    \E c \in Clients :
        \/ PatchReceive(c)
        \/ PatchWrite(c)
        \/ SubtreeReceive(c)
        \/ SubtreeCreate(c)
        \/ SubtreeWriteFile(c)
        \/ SubtreeAttach(c)
        \/ SubtreeWriteSystem(c)

SpecServer == InitServer /\ [][NextServer]_vars

(***************************************************************************)
(* The viewer App: its state, the fetches it has in flight, and the        *)
(* handlers of the user's clicks.  A response is handled by the            *)
(* continuation of the loadTree or handleStatusChange call that sent the   *)
(* request; responses arrive in any order.                                 *)
(***************************************************************************)
MaxPath == 3
MaxFetches == 2

\* the subtrees the nodes of each tree of the store point to
SubtreesOf(name) ==
    CASE name = "system"  -> {"feature", "tools"}
      [] name = "feature" -> {"detail"}
      [] OTHER            -> {}

\* const currentTreeName = treePath[treePath.length - 1]
currentTreeName(a) == a.treePath[Len(a.treePath)]

\* loadTree(name) up to its await: setLoading(true); setError(null)
loadTreeStarted(a) == [a EXCEPT !.loading = TRUE, !.error = Undefined]

\* setTreePath(path), and the effect that calls loadTree when
\* currentTreeName has changed
setTreePath(path) ==
    IF path[Len(path)] # currentTreeName(app)
    THEN /\ Len(fetches) < MaxFetches
         /\ app' = loadTreeStarted([app EXCEPT !.treePath = path])
         /\ fetches' = Append(fetches, [kind |-> "load",
                                        name |-> path[Len(path)]])
    ELSE /\ app' = [app EXCEPT !.treePath = path]
         /\ UNCHANGED fetches

\* the App is mounted: the effect has called loadTree("system")
InitApp ==
    /\ app = NoApp
    /\ fetches = <<[kind |-> "load", name |-> "system"]>>
    /\ files = << >>
    /\ requests = << >>
    /\ tree = << >>
    /\ pc = "mounted"
    /\ result = NoResult
    /\ input = NoInput
    /\ parsed = NoParse
    /\ query = NoQuery

\* navigateToSubtree(selectedNode.subtree) and handleNodeDoubleClick(node),
\* for a node of the displayed tree
NavigateToSubtree ==
    /\ app.tree # Undefined
    /\ Len(app.treePath) < MaxPath
    /\ \E subtreeName \in SubtreesOf(app.tree[1].name) :
          setTreePath(Append(app.treePath, subtreeName))
    /\ UNCHANGED <<tree, pc, result, input, parsed, query, files, requests>>

\* navigateToBreadcrumb(index), for the buttons of the breadcrumb
NavigateToBreadcrumb ==
    /\ \E index \in 0..(Len(app.treePath) - 2) :
          setTreePath(SubSeq(app.treePath, 1, index + 1))
    /\ UNCHANGED <<tree, pc, result, input, parsed, query, files, requests>>

\* the Refresh button: loadTree(currentTreeName)
Refresh ==
    /\ Len(fetches) < MaxFetches
    /\ app' = loadTreeStarted(app)
    /\ fetches' = Append(fetches, [kind |-> "load",
                                   name |-> currentTreeName(app)])
    /\ UNCHANGED <<tree, pc, result, input, parsed, query, files, requests>>

\* handleStatusChange(nodeId, status) up to its await, for the selected
\* node of the displayed tree
StatusChange ==
    /\ app.tree # Undefined
    /\ Len(fetches) < MaxFetches
    /\ fetches' = Append(fetches, [kind |-> "update",
                                   name |-> currentTreeName(app)])
    /\ UNCHANGED <<tree, pc, result, input, parsed, query, files, requests,
                   app>>

\* a sequence without its i-th element
RemoveAt(seq, i) == SubSeq(seq, 1, i - 1) \o SubSeq(seq, i + 1, Len(seq))

\* a response with res.ok: setTree(data), and after loadTree
\* setLoading(false)
ResponseOk ==
    /\ \E i \in DOMAIN fetches :
          /\ app' = [app EXCEPT
                       !.tree = Some([name |-> fetches[i].name]),
                       !.loading = IF fetches[i].kind = "load"
                                   THEN FALSE ELSE @]
          /\ fetches' = RemoveAt(fetches, i)
    /\ UNCHANGED <<tree, pc, result, input, parsed, query, files, requests>>

\* a response without res.ok, or no response: setError(err.message), and
\* after loadTree setLoading(false)
ResponseFailed ==
    /\ \E i \in DOMAIN fetches :
          /\ app' = [app EXCEPT
                       !.error = Some(IF fetches[i].kind = "load"
                                      THEN "Failed to fetch tree: "
                                              \o fetches[i].name
                                      ELSE "Failed to update node"),
                       !.loading = IF fetches[i].kind = "load"
                                   THEN FALSE ELSE @]
          /\ fetches' = RemoveAt(fetches, i)
    /\ UNCHANGED <<tree, pc, result, input, parsed, query, files, requests>>

NextApp ==
    \/ NavigateToSubtree
    \/ NavigateToBreadcrumb
    \/ Refresh
    \/ StatusChange
    \/ ResponseOk
    \/ ResponseFailed

SpecApp == InitApp /\ [][NextApp]_vars

(***************************************************************************)
(* Vocabulary of the properties.                                           *)
(***************************************************************************)

NodeIds(nodes) == {nodes[i].id : i \in DOMAIN nodes}

NodeOf(nodes, id) == nodes[CHOOSE i \in DOMAIN nodes : nodes[i].id = id]

\* id |-> computedTier of a ComputedTechTree
TierById(res) ==
    [id \in NodeIds(res.nodes) |-> NodeOf(res.nodes, id).computedTier]

IsExplicit(node) == node.tier # Undefined

RECURSIVE Peel(_, _)

\* what is left of the id set S after removing, again and again, the ids
\* that have no prerequisite inside S: empty iff no prerequisite cycle
\* runs inside S
Peel(nodes, S) ==
    LET free == {x \in S : Range(NodeOf(nodes, x).prerequisites) \cap S = {}}
    IN  IF free = {} THEN S ELSE Peel(nodes, S \ free)

\* the prerequisite graph has a cycle (a self reference included)
HasCycle(nodes) == Peel(nodes, NodeIds(nodes)) # {}

\* ... a cycle none of whose nodes declares an explicit tier
HasAutoCycle(nodes) ==
    Peel(nodes, {x \in NodeIds(nodes) : ~IsExplicit(NodeOf(nodes, x))}) # {}

\* the prerequisite chains s[1] <- s[2] <- ... <- s[k]: each s[j] is a
\* prerequisite of s[j+1]
Chains(nodes) ==
    {s \in UNION {[1..k -> NodeIds(nodes)] : k \in 1..Len(nodes)} :
        \A j \in 1..(Len(s) - 1) :
            s[j] \in Range(NodeOf(nodes, s[j + 1]).prerequisites)}

\* number of nodes on the longest prerequisite chain ending at id
LongestChain(nodes, id) ==
    LET lens == {Len(s) : s \in {c \in Chains(nodes) : c[Len(c)] = id}}
    IN  CHOOSE k \in lens : \A m \in lens : m <= k

SetMax(S) == CHOOSE k \in S : \A m \in S : m <= k

Computed == pc = "computed"

Asked(op) == pc = "computed" /\ query.op = op

\* C1: in an acyclic tree without explicit tiers a node without
\* prerequisites has computedTier 1, any other node 1 + the largest
\* computedTier of its prerequisites, and that is the number of nodes on the
\* longest prerequisite chain ending at the node.
C1_TierIsLongestChain ==
    (Computed /\ ~HasCycle(tree) /\ \A i \in DOMAIN tree : ~IsExplicit(tree[i]))
    => \A i \in DOMAIN result.nodes :
         LET n  == result.nodes[i]
             ts == {TierById(result)[p] : p \in Range(n.prerequisites)}
         IN  /\ n.computedTier = IF ts = {} THEN 1 ELSE 1 + SetMax(ts)
             /\ n.computedTier = LongestChain(tree, n.id)

\* the chain A <- B <- C has been computed: tiers 1, 2, 3
C1_Witness ==
    /\ Computed
    /\ ~HasCycle(tree)
    /\ \A i \in DOMAIN tree : ~IsExplicit(tree[i])
    /\ Len(tree) = 3
    /\ tree[2].prerequisites = <<"A">>
    /\ tree[3].prerequisites = <<"B">>
    /\ TierById(result) = [id \in {"A", "B", "C"} |->
                              IF id = "A" THEN 1 ELSE IF id = "B" THEN 2 ELSE 3]

\* C2: a node that declares tier t has computedTier t whatever its
\* prerequisites are, and every node without explicit tier that lists it as
\* a prerequisite has computedTier >= t + 1.
C2_ExplicitTierWins ==
    Computed =>
      \A i \in DOMAIN result.nodes :
         LET n == result.nodes[i]
         IN  IsExplicit(n) =>
               /\ n.computedTier = n.tier[1]
               /\ \A j \in DOMAIN result.nodes :
                    LET m == result.nodes[j]
                    IN  (~IsExplicit(m) /\ n.id \in Range(m.prerequisites))
                        => m.computedTier >= n.tier[1] + 1

\* a node with explicit tier 2 that lists itself as its prerequisite, and an
\* auto-tiered dependent of it that reads the 2 and gets 3
C2_Witness ==
    /\ Computed
    /\ \E i, j, k \in DOMAIN result.nodes :
         /\ result.nodes[i].tier = Some(2)
         /\ result.nodes[i].prerequisites = <<result.nodes[i].id>>
         /\ result.nodes[i].computedTier = 2
         /\ ~IsExplicit(result.nodes[j])
         /\ result.nodes[j].prerequisites = <<result.nodes[i].id>>
         /\ result.nodes[j].computedTier = 3

\* C3 as stated: in an acyclic tree every node's computedTier exceeds that
\* of each of its prerequisites.
C3_Original ==
    (Computed /\ ~HasCycle(tree))
    => \A i \in DOMAIN result.nodes :
         \A p \in Range(result.nodes[i].prerequisites) :
            result.nodes[i].computedTier >= TierById(result)[p] + 1

\* C3 amended: in an acyclic tree every node that declares no explicit tier
\* has a computedTier exceeding that of each of its prerequisites.
C3_TierAbovePrereqs ==
    (Computed /\ ~HasCycle(tree))
    => \A i \in DOMAIN result.nodes :
         ~IsExplicit(result.nodes[i]) =>
           \A p \in Range(result.nodes[i].prerequisites) :
              result.nodes[i].computedTier >= TierById(result)[p] + 1

\* an acyclic tree where an auto-tiered node has two prerequisites of
\* different tiers, one of them explicit
C3_Witness ==
    /\ Computed
    /\ ~HasCycle(tree)
    /\ \E i \in DOMAIN result.nodes :
         /\ ~IsExplicit(result.nodes[i])
         /\ \E p, q \in Range(result.nodes[i].prerequisites) :
              /\ TierById(result)[p] < TierById(result)[q]
              /\ IsExplicit(NodeOf(tree, q))
              /\ result.nodes[i].computedTier = TierById(result)[q] + 1

NoPrerequisites(nodes) == \A i \in DOMAIN nodes : nodes[i].prerequisites = << >>

\* C4 as stated: when no node has a prerequisite every computedTier is 1.
C4_Original ==
    (Computed /\ NoPrerequisites(tree))
    => \A i \in DOMAIN result.nodes : result.nodes[i].computedTier = 1

\* C4 amended: when no node has a prerequisite, every node that declares no
\* explicit tier has computedTier 1 (a node that declares one has that).
C4_FlatTreeTierOne ==
    (Computed /\ NoPrerequisites(tree))
    => \A i \in DOMAIN result.nodes :
         result.nodes[i].computedTier =
            IF IsExplicit(result.nodes[i]) THEN result.nodes[i].tier[1] ELSE 1

\* three nodes without prerequisites, one of them with explicit tier 2
C4_Witness ==
    /\ Computed
    /\ NoPrerequisites(tree)
    /\ Len(tree) = 3
    /\ \E i \in DOMAIN tree : tree[i].tier = Some(2)
    /\ \E i \in DOMAIN result.nodes :
         ~IsExplicit(result.nodes[i]) /\ result.nodes[i].computedTier = 1

\* the tree of two auto-tiered nodes that are each other's only prerequisite
IsTwoCycle(nodes) ==
    /\ Len(nodes) = 2
    /\ ~IsExplicit(nodes[1]) /\ ~IsExplicit(nodes[2])
    /\ nodes[1].prerequisites = <<nodes[2].id>>
    /\ nodes[2].prerequisites = <<nodes[1].id>>

Reverse(s) == [i \in 1..Len(s) |-> s[Len(s) + 1 - i]]

\* C5 as stated: on the 2-cycle both nodes get computedTier 1.
C5_Original ==
    (Computed /\ IsTwoCycle(tree))
    => /\ result.nodes[1].computedTier = 1
       /\ result.nodes[2].computedTier = 1

\* C5 amended: on the 2-cycle the computation completes; the node that
\* comes first in the node list gets computedTier 3 and the other one 2,
\* in either order of the two nodes.
C5_TwoCycleTiers ==
    (Computed /\ IsTwoCycle(tree))
    => /\ Len(result.nodes) = 2
       /\ result.nodes[1].computedTier = 3
       /\ result.nodes[2].computedTier = 2
       /\ LET r == computeTechTree(Reverse(tree))
          IN  /\ r.nodes[1].id = tree[2].id
              /\ r.nodes[1].computedTier = 3
              /\ r.nodes[2].computedTier = 2

\* the 2-cycle A <-> B has been computed
C5_Witness ==
    /\ Computed
    /\ IsTwoCycle(tree)
    /\ result.nodes[1].id = "A"
    /\ result.nodes[2].id = "B"
    /\ Len(result.warnings) >= 1

RECURSIVE CountEdges(_, _)

\* number of prerequisite entries of the first n nodes
CountEdges(nodes, n) ==
    IF n = 0 THEN 0 ELSE Len(nodes[n].prerequisites) + CountEdges(nodes, n - 1)

\* C6: computeTechTree returns for every validated tree, cyclic ones
\* included: the result has one node per input node, each with an integer
\* computedTier >= 1, and was reached within a bounded number of getTier
\* invocations (one per node plus one per prerequisite entry).
C6_ComputeTerminates ==
    Computed =>
      /\ Len(result.nodes) = Len(tree)
      /\ \A i \in DOMAIN result.nodes :
           /\ result.nodes[i].id = tree[i].id
           /\ result.nodes[i].computedTier \in Nat
           /\ result.nodes[i].computedTier >= 1
      /\ result.calls <= Len(tree) + CountEdges(tree, Len(tree))

\* a tree with a cycle of auto-tiered nodes has been computed
C6_Witness ==
    /\ Computed
    /\ HasAutoCycle(tree)
    /\ Len(tree) = 3
    /\ \A i \in DOMAIN result.nodes : result.nodes[i].computedTier >= 1

\* C7 as stated: a tree whose prerequisite graph has a cycle draws at least
\* one cycle warning.
C7_Original ==
    (Computed /\ HasCycle(tree)) => Len(result.warnings) >= 1

\* C7 amended: a tree whose prerequisite graph has a cycle none of whose
\* nodes declares an explicit tier draws at least one cycle warning, and
\* the computation completes.
C7_AutoCycleWarns ==
    (Computed /\ HasAutoCycle(tree))
    => /\ Len(result.warnings) >= 1
       /\ Len(result.nodes) = Len(tree)

\* a self reference of an auto-tiered node has drawn a warning naming it
C7_Witness ==
    /\ Computed
    /\ HasAutoCycle(tree)
    /\ \E i \in DOMAIN tree :
         /\ tree[i].id \in Range(tree[i].prerequisites)
         /\ tree[i].id \in Range(result.warnings)

Perms(n) == {p \in [1..n -> 1..n] : \A i, j \in 1..n : p[i] = p[j] => i = j}

PermuteNodes(nodes, p) == [i \in 1..Len(nodes) |-> nodes[p[i]]]

PermutePrereqs(nodes, i, q) ==
    [nodes EXCEPT ![i].prerequisites = [j \in 1..Len(@) |-> @[q[j]]]]

\* the tiers memo computeTechTree obtains for a node list (its lines 13-20
\* and 33)
TiersMemo(nodes) == calculateTiers(nodes, buildNodeMap(nodes, 1, EmptyMap)).tiers

\* every node keeps the computedTier it has in res after any permutation of
\* the node list and after any permutation of any one prerequisites list
\* (the permuted list is computed afresh; each permuted list and its memo
\* are bound once by a one-element quantifier)
OrderIrrelevant(nodes, res) ==
    /\ \A p \in Perms(Len(nodes)) :
         \A pn \in {PermuteNodes(nodes, p)} :
           \A memo \in {TiersMemo(pn)} :
             \A i \in DOMAIN nodes :
                /\ pn[i].id = res.nodes[p[i]].id
                /\ computedTierOf(pn[i], memo) = res.nodes[p[i]].computedTier
    /\ \A i \in DOMAIN nodes :
         \A q \in Perms(Len(nodes[i].prerequisites)) :
           \A pn \in {PermutePrereqs(nodes, i, q)} :
             \A memo \in {TiersMemo(pn)} :
               \A k \in DOMAIN nodes :
                  /\ pn[k].id = res.nodes[k].id
                  /\ computedTierOf(pn[k], memo) = res.nodes[k].computedTier

\* C8 as stated: for every validated tree computedTier does not depend on
\* the order of the nodes or of the prerequisite entries.
C8_Original == Computed => OrderIrrelevant(tree, result)

\* C8 amended: the same, for every validated tree that has no prerequisite
\* cycle made only of nodes without explicit tier.
C8_OrderIrrelevant ==
    (Computed /\ ~HasAutoCycle(tree)) => OrderIrrelevant(tree, result)

\* a node with two prerequisites of different tiers, in a tree of three
\* nodes without a cycle of auto-tiered nodes
C8_Witness ==
    /\ Computed
    /\ ~HasAutoCycle(tree)
    /\ Len(tree) = 3
    /\ \E i \in DOMAIN result.nodes :
         /\ Len(result.nodes[i].prerequisites) = 2
         /\ TierById(result)[result.nodes[i].prerequisites[1]]
              # TierById(result)[result.nodes[i].prerequisites[2]]

\* C9: P's dependents contain N's id iff N's prerequisites contain P's id,
\* and every node has a dependents list.
C9_DependentsInverse ==
    Computed =>
      /\ Len(result.nodes) = Len(tree)
      /\ \A i \in DOMAIN result.nodes :
           /\ result.nodes[i].dependents \in Seq(NodeIds(tree))
           /\ \A j \in DOMAIN result.nodes :
                result.nodes[j].id \in Range(result.nodes[i].dependents)
                  <=> result.nodes[i].id \in Range(result.nodes[j].prerequisites)

\* a node with two dependents beside a node with none
C9_Witness ==
    /\ Computed
    /\ \E i, j \in DOMAIN result.nodes :
         /\ Cardinality(Range(result.nodes[i].dependents)) = 2
         /\ result.nodes[j].dependents = << >>
         /\ result.nodes[j].prerequisites # << >>

\* C10: no id occurs twice in a node's dependents, also when a node lists
\* the same prerequisite more than once.
C10_DependentsNoDuplicates ==
    Computed =>
      \A i \in DOMAIN result.nodes :
         \A a, b \in DOMAIN result.nodes[i].dependents :
            result.nodes[i].dependents[a] = result.nodes[i].dependents[b] => a = b

RECURSIVE SumOver(_, _)
\* the sum of f over the finite set S of arguments
SumOver(f, S) ==
    IF S = {} THEN 0
    ELSE LET x == CHOOSE y \in S : TRUE IN f[x] + SumOver(f, S \ {x})

\* the devPoints of every node of the input tree, an absent value as 0
PointsOf(nodes) ==
    [i \in DOMAIN nodes |->
        IF nodes[i].devPoints = Undefined THEN 0 ELSE nodes[i].devPoints[1]]

\* C11: totalDevPoints is the sum of devPoints over all nodes (absent = 0),
\* completedDevPoints is the same sum over the completed nodes, so
\* 0 <= completedDevPoints <= totalDevPoints, and both are the same for
\* every order of the node list (the whole computation is repeated on the
\* reversed list, the dev point loop on every permutation of the nodes).
C11_DevPointSums ==
    Computed =>
        /\ result.totalDevPoints = SumOver(PointsOf(tree), DOMAIN tree)
        /\ result.completedDevPoints =
              SumOver(PointsOf(tree),
                      {i \in DOMAIN tree : tree[i].status = "completed"})
        /\ 0 <= result.completedDevPoints
        /\ result.completedDevPoints <= result.totalDevPoints
        /\ \A r \in {computeTechTree(Reverse(tree))} :
              /\ r.totalDevPoints = result.totalDevPoints
              /\ r.completedDevPoints = result.completedDevPoints
        /\ \A p \in Perms(Len(tree)) :
              sumDevPoints(PermuteNodes(result.nodes, p), 1, <<0, 0>>) =
                 <<result.totalDevPoints, result.completedDevPoints>>

C11_Witness ==
    /\ Computed /\ Len(tree) = 3
    /\ tree[1].devPoints = Some(1) /\ tree[1].status = "completed"
    /\ tree[2].devPoints = Undefined /\ tree[2].status = "completed"
    /\ tree[3].devPoints = Some(1) /\ tree[3].status = "in-progress"
    /\ result.totalDevPoints = 2 /\ result.completedDevPoints = 1

\* C12: the tiers mapping partitions the nodes: its keys are exactly the
\* computedTier values present, the bucket of a key holds exactly the nodes
\* of that computedTier in the tree's node order (so no bucket is empty),
\* and every node occurs exactly once in the whole mapping.
C12_TierGroupsPartition ==
    Computed =>
      /\ DOMAIN result.tiers =
            {result.nodes[i].computedTier : i \in DOMAIN result.nodes}
      /\ \A t \in DOMAIN result.tiers :
            /\ result.tiers[t] # << >>
            /\ result.tiers[t] =
                  SelectSeq(result.nodes, LAMBDA n : n.computedTier = t)
      /\ \A i \in DOMAIN result.nodes :
            Cardinality({tk \in UNION {{<<t, k>> : k \in DOMAIN result.tiers[t]}
                                         : t \in DOMAIN result.tiers} :
                            result.tiers[tk[1]][tk[2]] = result.nodes[i]}) = 1

\* three nodes in two buckets, 2 and 3, no bucket for tier 1, and the
\* bucket of tier 3 holding two nodes in node order
C12_Witness ==
    /\ Computed
    /\ Len(result.nodes) = 3
    /\ DOMAIN result.tiers = {2, 3}
    /\ Len(result.tiers[3]) = 2
    /\ result.tiers[3][1].id = "B"
    /\ result.tiers[3][2].id = "C"


(***************************************************************************)
(* Traversal queries (SpecTraverse).                                       *)
(***************************************************************************)
RECURSIVE Closure(_, _)
\* least set containing S and closed under the one-step relation step
Closure(step, S) ==
    LET next == S \cup UNION {step[x] : x \in S \cap DOMAIN step}
    IN  IF next = S THEN S ELSE Closure(step, next)

\* ids reachable from nodeId by one or more steps of the relation
ReachableFrom(step, nodeId) ==
    IF nodeId \in DOMAIN step THEN Closure(step, step[nodeId]) ELSE {}

\* the prerequisite links of the input tree, by id
PrereqStep == [id \in NodeIds(tree) |-> Range(NodeOf(tree, id).prerequisites)]

\* the dependents links: id -> the nodes that list id as a prerequisite
DependentStep ==
    [id \in NodeIds(tree) |->
        {d \in NodeIds(tree) : id \in Range(NodeOf(tree, d).prerequisites)}]

(***************************************************************************)
(* Readiness queries (SpecReady).                                          *)
(***************************************************************************)
\* the status of the node of the input tree with the given id
StatusOf(id) == NodeOf(tree, id).status

\* every prerequisite id of the node belongs to a completed node
PrereqsDone(id) ==
    \A p \in Range(NodeOf(tree, id).prerequisites) :
        p \in NodeIds(tree) /\ StatusOf(p) = "completed"

\* C13: canStartNode(nodeId, tree) is true exactly when nodeId is the id of
\* a node and every prerequisite of that node is a completed node; for an id
\* not in the tree it returns false (a boolean, no error).
C13_CanStartIffPrereqsDone ==
    Asked("canStart") =>
        /\ query.ret \in BOOLEAN
        /\ query.ret = (query.arg \in NodeIds(tree) /\ PrereqsDone(query.arg))
        /\ (query.arg \notin NodeIds(tree) => query.ret = FALSE)

C13_Witness ==
    /\ Asked("canStart") /\ query.arg = "B" /\ Len(tree) = 3
    /\ NodeOf(tree, "B").prerequisites = <<"A", "C">>
    /\ StatusOf("A") = "completed" /\ StatusOf("C") = "completed"
    /\ query.ret = TRUE

\* C14: getNextTargets returns exactly the nodes that are neither completed
\* nor in-progress and whose prerequisites are all completed, in the node
\* order of the tree; it never returns a completed node, an in-progress
\* node or a node with an incomplete prerequisite.
C14_NextTargetsExact ==
    Asked("nextTargets") =>
        /\ query.ret =
              SelectSeq(result.nodes,
                  LAMBDA n : /\ n.status \notin {"completed", "in-progress"}
                             /\ PrereqsDone(n.id))
        /\ \A k \in DOMAIN query.ret :
              /\ query.ret[k].status \in {"planned", "blocked"}
              /\ PrereqsDone(query.ret[k].id)

C14_Witness ==
    /\ Asked("nextTargets") /\ Len(tree) = 3
    /\ StatusOf("A") = "completed" /\ StatusOf("B") = "blocked"
    /\ StatusOf("C") = "planned"
    /\ NodeOf(tree, "B").prerequisites = <<"A">>
    /\ NodeOf(tree, "C").prerequisites = <<"A">>
    /\ Len(query.ret) = 2
    /\ query.ret[1].id = "B" /\ query.ret[2].id = "C"

C16_AncestorsAreClosure ==
    Asked("ancestors") =>
        /\ query.ret = ReachableFrom(PrereqStep, query.arg)
        /\ (query.arg \notin NodeIds(tree) => query.ret = {})

C16_Witness ==
    /\ Asked("ancestors") /\ query.arg = "C"
    /\ Len(tree) = 3
    /\ NodeOf(tree, "C").prerequisites = <<"B">>
    /\ NodeOf(tree, "B").prerequisites = <<"A">>
    /\ query.ret = {"A", "B"}

\* C17: getDescendants(X) is exactly the set of ids reachable from X by one
\* or more dependents links, and it is the reverse of getAncestors: Y is a
\* descendant of X exactly when X is an ancestor of Y.
C17_DescendantsAreReverse ==
    Asked("descendants") =>
        /\ query.ret = ReachableFrom(DependentStep, query.arg)
        /\ \A y \in QueryIds :
              y \in query.ret <=> query.arg \in getAncestors(y, result).found

C17_Witness ==
    /\ Asked("descendants") /\ query.arg = "A"
    /\ Len(tree) = 3
    /\ NodeOf(tree, "C").prerequisites = <<"B">>
    /\ NodeOf(tree, "B").prerequisites = <<"A">>
    /\ query.ret = {"B", "C"}

\* C18: in a tree without a prerequisite cycle no node is its own ancestor
\* or its own descendant, and the ancestors and the descendants of a node
\* are disjoint.
C18_AcyclicSeparation ==
    (pc = "computed" /\ query.op \in {"ancestors", "descendants"}
        /\ ~HasCycle(tree)) =>
        \A a \in {getAncestors(query.arg, result).found} :
          \A d \in {getDescendants(query.arg, result).found} :
            /\ query.ret = (IF query.op = "ancestors" THEN a ELSE d)
            /\ query.arg \notin a
            /\ query.arg \notin d
            /\ a \cap d = {}

C18_Witness ==
    /\ Asked("ancestors") /\ query.arg = "B" /\ ~HasCycle(tree)
    /\ query.ret = {"A"}
    /\ getDescendants("B", result).found = {"C"}

\* how often id occurs in the sequence s
Occurrences(s, id) == Cardinality({i \in DOMAIN s : s[i] = id})

\* C19 as stated: the traversal expands each node id at most once and takes
\* at most as many steps (calls of traverse) as the tree has nodes.
C19_Original ==
    (pc = "computed" /\ query.op \in {"ancestors", "descendants"}) =>
        /\ \A id \in NodeIds(tree) : Occurrences(query.expanded, id) <= 1
        /\ query.calls <= Len(tree)

\* C19: getAncestors and getDescendants return on every tree, cycles
\* included.  Each id is added to the result once (one call of traverse per
\* added id, after the first call), every node other than the start node is
\* expanded at most once, and the start node is expanded a second time
\* exactly when it lies on a cycle; the calls of traverse are at most the
\* node count plus one.
C19_TraversalBounded ==
    (pc = "computed" /\ query.op \in {"ancestors", "descendants"}) =>
        /\ query.calls = 1 + Cardinality(query.ret)
        /\ query.calls <= Len(tree) + 1
        /\ \A id \in NodeIds(tree) \ {query.arg} :
              Occurrences(query.expanded, id) <= 1
        /\ Occurrences(query.expanded, query.arg) =
              (IF query.arg \notin NodeIds(tree) THEN 0
               ELSE IF query.arg \in query.ret THEN 2 ELSE 1)

C19_Witness ==
    /\ Asked("descendants") /\ query.arg = "A"
    /\ Len(tree) = 2
    /\ NodeOf(tree, "A").prerequisites = <<"B">>
    /\ NodeOf(tree, "B").prerequisites = <<"A">>
    /\ query.ret = {"A", "B"}
    /\ query.calls = 3

(***************************************************************************)
(* Parsing (SpecParse).                                                    *)
(***************************************************************************)
Has(obj, key) == key \in DOMAIN obj.fields

IsNonEmptyString(v) == v.type = "string" /\ v.str # ""

\* the raw node has the shape TechNodeSchema asks for
RawNodeOK(r) ==
    /\ r.type = "object"
    /\ Has(r, "id") /\ IsNonEmptyString(r.fields.id)
    /\ Has(r, "name") /\ IsNonEmptyString(r.fields.name)
    /\ Has(r, "tier") => (r.fields.tier.type = "number" /\ r.fields.tier.num >= 1)
    /\ Has(r, "status") =>
          (r.fields.status.type = "string" /\ r.fields.status.str \in NodeStatus)
    /\ Has(r, "prerequisites") =>
          /\ r.fields.prerequisites.type = "array"
          /\ \A j \in DOMAIN r.fields.prerequisites.items :
                r.fields.prerequisites.items[j].type = "string"
    /\ Has(r, "devPoints") =>
          (r.fields.devPoints.type = "number" /\ r.fields.devPoints.num >= 0)

\* the text parses to a value of the shape TechTreeSchema asks for
SchemaOK(yaml) ==
    /\ yaml.kind = "value"
    /\ yaml.value.type = "object"
    /\ Has(yaml.value, "name") /\ IsNonEmptyString(yaml.value.fields.name)
    /\ Has(yaml.value, "version") => yaml.value.fields.version.type = "string"
    /\ Has(yaml.value, "nodes")
    /\ yaml.value.fields.nodes.type = "array"
    /\ Len(yaml.value.fields.nodes.items) >= 1
    /\ \A i \in DOMAIN yaml.value.fields.nodes.items :
          RawNodeOK(yaml.value.fields.nodes.items[i])

\* the raw nodes of a schema-conforming input, their ids and prerequisites
RawNodes(yaml) == yaml.value.fields.nodes.items

RawId(r) == r.fields.id.str

RawPrereqs(r) ==
    IF Has(r, "prerequisites")
    THEN {r.fields.prerequisites.items[j].str :
             j \in DOMAIN r.fields.prerequisites.items}
    ELSE {}

RawResolvable(yaml) ==
    \A i \in DOMAIN RawNodes(yaml) :
        \A p \in RawPrereqs(RawNodes(yaml)[i]) :
            \E k \in DOMAIN RawNodes(yaml) : RawId(RawNodes(yaml)[k]) = p

RawUnique(yaml) ==
    \A i, k \in DOMAIN RawNodes(yaml) :
        RawId(RawNodes(yaml)[i]) = RawId(RawNodes(yaml)[k]) => i = k

Loaded == pc \in {"computed", "failed"}

\* a returned tree: at least one node, unique ids, resolvable prerequisites
WellFormed(nodes) ==
    /\ Len(nodes) >= 1
    /\ \A i, k \in DOMAIN nodes : nodes[i].id = nodes[k].id => i = k
    /\ \A i \in DOMAIN nodes :
          Range(nodes[i].prerequisites) \subseteq NodeIds(nodes)

\* success exactly for schema-conforming, resolvable, duplicate-free input,
\* and then the tree is well-formed and computed
ParseSucceedsIff ==
    /\ parsed.success <=>
          (SchemaOK(input) /\ RawResolvable(input) /\ RawUnique(input))
    /\ parsed.success =>
          /\ pc = "computed"
          /\ WellFormed(parsed.data.nodes)
          /\ tree = parsed.data.nodes
          /\ Len(result.nodes) = Len(tree)

\* a failure leaves no tree and runs no tier computation
FailureLeavesNoTree ==
    ~parsed.success =>
          /\ pc = "failed"
          /\ parsed.error # ""
          /\ "data" \notin DOMAIN parsed
          /\ tree = << >>
          /\ result = NoResult

\* C20 as stated: success iff schema, references and uniqueness hold; every
\* failure returns an error with details and no tree.
C20_Original ==
    Loaded =>
        /\ ParseSucceedsIff
        /\ FailureLeavesNoTree
        /\ ~parsed.success => parsed.details # Undefined

\* C20: parseTechTree succeeds exactly when the input passes the schema,
\* every prerequisite names a node of the tree and no two nodes share an id;
\* a returned tree has at least one node, unique ids and resolvable
\* prerequisites.  A failure returns an error and no tree, and no tier
\* computation happens; the error comes with a non-empty list of details
\* when the schema, the prerequisite or the duplicate check failed, and
\* without details when the text is no YAML or no object.
C20_ParseSucceedsIffValid ==
    Loaded =>
        /\ ParseSucceedsIff
        /\ FailureLeavesNoTree
        /\ ~parsed.success =>
              IF input.kind = "value" /\ input.value.type \in {"object", "array"}
              THEN /\ parsed.details # Undefined
                   /\ Len(parsed.details[1]) >= 1
                   /\ parsed.error \in {"Schema validation failed",
                                        "Invalid prerequisites",
                                        "Duplicate node IDs"}
              ELSE parsed.details = Undefined

C20_Witness ==
    /\ pc = "failed"
    /\ SchemaOK(input) /\ RawResolvable(input) /\ ~RawUnique(input)
    /\ Len(RawNodes(input)) = 3
    /\ parsed.error = "Duplicate node IDs"
    /\ parsed.details = Some(<<"Duplicate ID: \"A\"">>)

\* the text of the message for a prerequisite that names no node
InvalidPrereqMessage(id, prereq) ==
    "Node \"" \o id \o "\" has invalid prerequisite \"" \o prereq \o "\""

\* the violating pairs of a schema-conforming input: the position of a node
\* and a prerequisite id of it that no node has
DanglingPairs(yaml) ==
    {pair \in (DOMAIN RawNodes(yaml)) \X
                 (UNION {RawPrereqs(RawNodes(yaml)[i]) :
                            i \in DOMAIN RawNodes(yaml)}) :
        /\ pair[2] \in RawPrereqs(RawNodes(yaml)[pair[1]])
        /\ \A k \in DOMAIN RawNodes(yaml) : RawId(RawNodes(yaml)[k]) # pair[2]}

\* C21: for a schema-valid tree with dangling prerequisites parseTechTree
\* fails with "Invalid prerequisites" and details holds exactly one message
\* 'Node "<id>" has invalid prerequisite "<missing-id>"' per violating
\* (node, missing-id) pair: every pair has its message, every message
\* belongs to a pair, and there are as many messages as pairs.
C21_OneMessagePerDanglingPair ==
    (Loaded /\ SchemaOK(input) /\ ~RawResolvable(input)) =>
        /\ ~parsed.success
        /\ parsed.error = "Invalid prerequisites"
        /\ parsed.details # Undefined
        /\ \A pairs \in {DanglingPairs(input)} :
              /\ \A pair \in pairs :
                    InvalidPrereqMessage(RawId(RawNodes(input)[pair[1]]), pair[2])
                        \in Range(parsed.details[1])
              /\ \A k \in DOMAIN parsed.details[1] :
                    \E pair \in pairs :
                        parsed.details[1][k] =
                           InvalidPrereqMessage(
                               RawId(RawNodes(input)[pair[1]]), pair[2])
              /\ Len(parsed.details[1]) = Cardinality(pairs)

\* the ids more than one node of a schema-conforming input has
DuplicatedIds(yaml) ==
    {RawId(RawNodes(yaml)[i]) : i \in
        {k \in DOMAIN RawNodes(yaml) :
            \E m \in DOMAIN RawNodes(yaml) :
                m # k /\ RawId(RawNodes(yaml)[m]) = RawId(RawNodes(yaml)[k])}}

DuplicateMessage(id) == "Duplicate ID: \"" \o id \o "\""

\* the ids and prerequisite ids the inputs use
UsedIds == {Names[i] : i \in DOMAIN Names} \cup {UnknownId, ""}

PrereqMessages == {InvalidPrereqMessage(a, b) : a \in UsedIds, b \in UsedIds}

DuplicateMessages == {DuplicateMessage(a) : a \in UsedIds}

\* C22: for a tree that passes the schema and the referential check and
\* repeats an id, parseTechTree fails with "Duplicate node IDs" and exactly
\* one message 'Duplicate ID: "<id>"' per distinct duplicated id.  Only the
\* first failing check reports: schema issues come alone, dangling
\* prerequisites come without duplicate messages.
C22_OneMessagePerDuplicatedId ==
    (Loaded /\ input.kind = "value" /\ input.value.type = "object") =>
        /\ (SchemaOK(input) /\ RawResolvable(input) /\ ~RawUnique(input)) =>
              /\ ~parsed.success
              /\ parsed.error = "Duplicate node IDs"
              /\ Range(parsed.details[1]) =
                    {DuplicateMessage(id) : id \in DuplicatedIds(input)}
              /\ Len(parsed.details[1]) = Cardinality(DuplicatedIds(input))
        /\ ~SchemaOK(input) =>
              /\ parsed.error = "Schema validation failed"
              /\ Range(parsed.details[1])
                    \cap (PrereqMessages \cup DuplicateMessages) = {}
        /\ (SchemaOK(input) /\ ~RawResolvable(input)) =>
              /\ parsed.error = "Invalid prerequisites"
              /\ Range(parsed.details[1]) \subseteq PrereqMessages
              /\ Range(parsed.details[1]) \cap DuplicateMessages = {}

C22_Witness ==
    /\ pc = "failed"
    /\ SchemaOK(input) /\ RawResolvable(input)
    /\ Len(RawNodes(input)) = 3
    /\ \A i \in 1..3 : RawId(RawNodes(input)[i]) = "A"
    /\ parsed.details = Some(<<DuplicateMessage("A")>>)

\* the keys TechNodeSchema declares, as far as the inputs use them
SchemaKeys == CarriedKeys \cup {"name"}

\* a raw scalar or string list as the value the schema yields for it
RawValueOf(v) ==
    CASE v.type = "string" -> v.str
      [] v.type = "number" -> v.num
      [] v.type = "array"  -> [j \in DOMAIN v.items |-> v.items[j].str]

\* the value the raw node gives for a key, undefined when it has none
InField(raw, key) ==
    IF Has(raw, key) THEN Some(RawValueOf(raw.fields[key])) ELSE Undefined

\* the value the returned node has for a key, undefined when it has none
OutField(node, key) ==
    CASE key = "id"            -> Some(node.id)
      [] key = "tier"          -> node.tier
      [] key = "status"        -> Some(node.status)
      [] key = "prerequisites" -> Some(node.prerequisites)
      [] key = "devPoints"     -> node.devPoints

\* what the schema fills in for a key the input does not give
SchemaDefault(key) ==
    CASE key = "status"        -> Some("planned")
      [] key = "prerequisites" -> Some(<< >>)
      [] OTHER                 -> Undefined

\* C23 as stated: on success the returned nodes are the input nodes, in
\* order, each with exactly the fields and values of the input: nothing
\* added, nothing removed.
C23_Original ==
    (pc = "computed") =>
        /\ Len(parsed.data.nodes) = Len(RawNodes(input))
        /\ \A i \in DOMAIN RawNodes(input) :
              /\ \A key \in CarriedKeys :
                    OutField(parsed.data.nodes[i], key) =
                       InField(RawNodes(input)[i], key)
              /\ DOMAIN RawNodes(input)[i].fields \subseteq SchemaKeys

\* C23: on success parseTechTree returns the output of the schema, which
\* the referential and the duplicate check leave as it is: the same nodes
\* in the same order, every field the input gives with the value given, a
\* missing status filled in as planned, missing prerequisites as the empty
\* list and a missing version as "1.0.0"; tier and devPoints stay absent
\* when the input has none.
C23_ReturnsSchemaOutput ==
    (pc = "computed") =>
        /\ parsed.data = safeParse(input.value).data
        /\ Len(parsed.data.nodes) = Len(RawNodes(input))
        /\ \A i \in DOMAIN RawNodes(input) :
              \A key \in CarriedKeys :
                 OutField(parsed.data.nodes[i], key) =
                    (IF Has(RawNodes(input)[i], key)
                     THEN InField(RawNodes(input)[i], key)
                     ELSE SchemaDefault(key))
        /\ parsed.data.version =
              (IF Has(input.value, "version")
               THEN input.value.fields.version.str ELSE "1.0.0")

C23_Witness ==
    /\ pc = "computed" /\ Len(tree) = 2
    /\ ~Has(RawNodes(input)[1], "status")
    /\ ~Has(RawNodes(input)[1], "prerequisites")
    /\ Has(RawNodes(input)[2], "color")
    /\ parsed.data.nodes[1].status = "planned"
    /\ parsed.data.nodes[1].prerequisites = << >>
    /\ parsed.data.nodes[2].status = "completed"

\* a computed node without its computed fields
StripComputed(cnode) ==
    TechNode(cnode.id, cnode.tier, cnode.status, cnode.prerequisites,
             cnode.devPoints)

ToRawTree(name, version, nodes) ==
    Obj([name |-> Str(name), version |-> Str(version),
         nodes |-> Arr([i \in DOMAIN nodes |-> Obj(ToRawNode(nodes[i]))])])

\* C24: for every accepted tree T, computeTechTree(T) stripped of the
\* computed fields is T again (same nodes, same order, every raw field
\* copied), the input tree is left as it was, and validating the stripped
\* tree again succeeds and yields T.
C24_RoundTrip ==
    (pc = "computed") =>
        \A stripped \in {[i \in DOMAIN result.nodes |->
                            StripComputed(result.nodes[i])]} :
            /\ tree = parsed.data.nodes
            /\ stripped = tree
            /\ parseTechTree(Yaml(ToRawTree(parsed.data.name,
                                            parsed.data.version, stripped)))
                  = [success |-> TRUE, data |-> parsed.data]

C24_Witness ==
    /\ pc = "computed" /\ Len(tree) = 3
    /\ tree[2].prerequisites = <<"A">>
    /\ tree[3].prerequisites = <<"B">>
    /\ result.nodes[3].computedTier = 3
    /\ tree[3].tier = Undefined
    /\ result.nodes[1].dependents = <<"B">>


\* the ids of the nodes of a tree in memory, in order
IdsOfTree(memTree) ==
    [i \in DOMAIN MemNodes(memTree) |-> MemNodes(memTree)[i].fields.id.str]

\* the node with the given id of a tree in memory
NodeOfTree(memTree, id) ==
    MemNodes(memTree)[findIndex(MemNodes(memTree), id)]

\* a PATCH request that has reached its write or was answered with 200
PatchSucceeds(c) ==
    /\ requests[c].route = "patch"
    /\ \/ requests[c].pc = "writing"
       \/ requests[c].pc = "done" /\ requests[c].status = 200

\* a request answered with an error status
Failed(c) == requests[c].pc = "done" /\ requests[c].status >= 400

\* C25: a PATCH never changes an id: the tree a PATCH request persists has
\* the same sequence of node ids as the tree it read, whatever its body
\* (also a body with an id field); once answered, the file holds that tree;
\* and a PATCH answered with an error leaves the files as they were.
C25_PatchKeepsIds ==
    \A c \in Clients :
        /\ PatchSucceeds(c) =>
              /\ IdsOfTree(requests[c].mem)
                    = IdsOfTree(requests[c].before[requests[c].name].value)
              /\ requests[c].pc = "done" =>
                    requests[c].after[requests[c].name]
                        = stringify(requests[c].mem)
        /\ (requests[c].route = "patch" /\ Failed(c)) =>
              requests[c].after = requests[c].before

\* a PATCH whose body carries an id field was answered with 200
C25_Witness ==
    \E c \in Clients :
        /\ requests[c].route = "patch"
        /\ requests[c].pc = "done"
        /\ requests[c].status = 200
        /\ requests[c].body.type = "object"
        /\ "id" \in DOMAIN requests[c].body.fields
        /\ requests[c].body.fields.id.str # requests[c].id

\* C26: a mutation never partially applies: a request whose updateNode,
\* addNode or save fails (unknown node id, existing id, a merged tree that
\* fails validation) is answered with an error without the tree having been
\* written, so a PATCH that fails leaves the files as they were; every write
\* the store awaits is of a tree that validates, and so is every file.
C26_NoPartialMutation ==
    /\ \A c \in Clients :
          /\ (requests[c].route = "patch" /\ Failed(c)) =>
                /\ requests[c].wrote = {}
                /\ requests[c].after = requests[c].before
          /\ (requests[c].route = "subtrees" /\ Failed(c)) =>
                DEFAULT_TREE \notin requests[c].wrote
          /\ requests[c].pc \in {"writing", "writingSystem"} =>
                parseTechTree(requests[c].pending[1].content).success
    /\ \A f \in DOMAIN files : parseTechTree(files[f]).success

\* a PATCH of a node of the tree with an invalid status, one with a
\* prerequisite naming no node and one of an unknown node were refused
C26_Witness ==
    /\ \E c \in Clients :
          /\ requests[c].route = "patch" /\ requests[c].status = 400
          /\ requests[c].pc = "done"
          /\ requests[c].body \in {PatchBodies[3], PatchBodies[4]}
          /\ requests[c].id \in Range(IdsOfTree(requests[c].before[DEFAULT_TREE].value))
          /\ requests[c].name = DEFAULT_TREE
    /\ \E c \in Clients :
          /\ requests[c].route = "patch" /\ requests[c].status = 404
          /\ requests[c].pc = "done"
          /\ requests[c].id = UnknownId
          /\ requests[c].name = DEFAULT_TREE

\* C27: the tree a successful node update returns is the tree load returns
\* for the same tree immediately afterwards.
C27_ReturnsWhatLoadReturns ==
    \A c \in Clients :
        (requests[c].route = "patch" /\ requests[c].pc = "done"
            /\ requests[c].status = 200) =>
           requests[c].value
              = load(requests[c].after, requests[c].name).value

\* C28: no update is lost: once two node updates of different nodes of the
\* same tree have both completed, the persisted tree has both changes.
C28_NoLostUpdate ==
    \A c, d \in Clients :
        (/\ c # d
         /\ requests[c].route = "patch" /\ requests[d].route = "patch"
         /\ requests[c].pc = "done" /\ requests[d].pc = "done"
         /\ requests[c].status = 200 /\ requests[d].status = 200
         /\ requests[c].name = requests[d].name
         /\ requests[c].id # requests[d].id) =>
            NodeOfTree(files[requests[c].name].value, requests[c].id)
               = NodeOfTree(requests[c].mem, requests[c].id)

\* C29: POST /subtrees is all-or-nothing: answered with an error it has
\* written no file; answered with 201 the file named by the slug exists and
\* the system tree has a node whose subtree is the slug.
C29_SubtreeAllOrNothing ==
    \A c \in Clients :
        (requests[c].route = "subtrees" /\ requests[c].pc = "done") =>
           /\ requests[c].status >= 400 => requests[c].wrote = {}
           /\ requests[c].status = 201 =>
                 /\ requests[c].slug \in DOMAIN requests[c].after
                 /\ \E i \in DOMAIN MemNodes(requests[c].after[DEFAULT_TREE].value) :
                       LET fields == MemNodes(requests[c].after[DEFAULT_TREE].value)[i].fields
                       IN  /\ "subtree" \in DOMAIN fields
                           /\ fields.subtree = Str(requests[c].slug)

\* C30: in the viewer App, whenever no request is in flight and no error is
\* shown, the displayed tree is the tree named by the last element of
\* treePath; treePath is never empty and always starts with "system".
C30_DisplaysCurrentTree ==
    /\ Len(app.treePath) >= 1
    /\ app.treePath[1] = "system"
    /\ (fetches = << >> /\ app.error = Undefined) =>
          /\ app.tree # Undefined
          /\ app.tree[1].name = currentTreeName(app)
====
